---- MODULE Spec2Model ----
(***************************************************************************)
(* Response cache (src/ai/response_cache.py), truncation heuristic         *)
(* (src/ai/token_manager.py, src/core/token_manager.py) and the           *)
(* completion orchestrator OpenAIClient.get_response                       *)
(* (src/ai/openai_client.py) of hr-psychoanalyst-bot-v2.                   *)
(*                                                                         *)
(* Texts are sequences of one-character strings, so that endswith, split,  *)
(* lower, "in" and the f-string of the cache key are computed as Python    *)
(* computes them.  Time is counted in ticks of TickSeconds seconds.        *)
(***************************************************************************)
EXTENDS Integers, Sequences, FiniteSets, TLC

\* ------------------------------------------------------------------ bounds
MaxTime == 1
MaxRequests == 1
MaxEvictions == 1
MaxTracked == 1
MaxTrackCalls == 3
MaxClock == 4
SeedCalls == 9
MaxPlans == 1
MaxConversation == 17
MaxUpdates == 3
HistorySeed == 19

\* messages handle_message handles in and around a structured consultation
MaxHandled == 10

\* calls of the SecurityManager after its start
MaxSecurityCalls == 4
\* times the clock of the SecurityManager is seen to advance
MaxAdvances == 2

\* ------------------------------------------------------- program constants
cache_ttl == 3600
\* one tick of the clock of the model, in seconds
TickSeconds == 60 * 60
\* seconds of datetime.now() are counted in the monitor by ClockMinutes minutes
ClockMinutes == 5 * 3
MAX_MESSAGE_LENGTH == 4000
\* MAX_TOKENS, RESPONSE_TOKENS and MIN_TOKENS of Config, which are the defaults
\* of max_tokens, response_tokens and min_tokens of BotConfig
MAX_TOKENS == 4000
RESPONSE_TOKENS == 1000
MIN_TOKENS == 100
\* the turns handle_message keeps of a conversation
HistoryLength == 20
\* the turns _get_ai_response puts into the prompt
ContextTurns == 5
\* 'max' of a new free_consultation_tracker entry
FreeConsultations == 7
\* the highest rating: prompt_manager.py divides a satisfaction by 5.0
RatingScale == 5

\* _start_structured_consultation: the questions of a consultation
ConsultationQuestions == 7
\* _handle_consultation_answer: the longest answer it stores
MaxAnswerLength == 200

\* RateLimit: requests allowed in one window, and the window in seconds
max_requests == 10
time_window == 60
\* check_user_behavior: the alerts that restrict a user, and the seconds they
\* count for
AlertThreshold == 3
AlertWindow == 3600
\* _log_security_alert: the history is cut to KeptAlerts above MaxAlerts
MaxAlerts == 1000
KeptAlerts == 500

\* ------------------------------------------------------------------- texts
\* Python's None, distinct from every text
None == <<"None">>

RECURSIVE Rep(_, _)
\* n copies of the text s, Python's s * n
Rep(s, n) == IF n <= 0 THEN <<>> ELSE s \o Rep(s, n - 1)

\* str.endswith(suf)
EndsWith(s, suf) ==
  /\ Len(suf) <= Len(s)
  /\ SubSeq(s, Len(s) - Len(suf) + 1, Len(s)) = suf

\* "sub in s"
Contains(s, sub) ==
  \E i \in 1..(Len(s) - Len(sub) + 1) : SubSeq(s, i, i + Len(sub) - 1) = sub

LowerChar(ch) ==
  CASE ch = "O" -> "o"
    [] ch = "K" -> "k"
    [] ch = "T" -> "t"
    [] OTHER -> ch

\* str.lower()
Lower(s) == [i \in 1..Len(s) |-> LowerChar(s[i])]

IsSpace(ch) == ch \in {" ", "\n"}

\* len(s.split()): the number of maximal runs of non-whitespace characters
WordCount(s) ==
  Cardinality({i \in 1..Len(s) :
                 /\ ~IsSpace(s[i])
                 /\ (i = 1 \/ IsSpace(s[i - 1]))})

RECURSIVE Strip(_)
\* str.strip()
Strip(s) ==
  IF s = <<>> THEN s
  ELSE IF IsSpace(s[1]) THEN Strip(Tail(s))
  ELSE IF IsSpace(s[Len(s)]) THEN Strip(SubSeq(s, 1, Len(s) - 1))
  ELSE s

Digits == <<"0", "1", "2", "3", "4", "5", "6", "7", "8", "9">>

RECURSIVE IntToStr(_)
\* str(n) of a non-negative integer, as the f-string formats user_id
IntToStr(n) ==
  IF n < 10 THEN <<Digits[n + 1]>>
  ELSE IntToStr(n \div 10) \o <<Digits[(n % 10) + 1]>>

\* n one-letter words separated by single blanks
Words(n) == IF n <= 0 THEN <<>> ELSE <<"w">> \o Rep(<<" ", "w">>, n - 1)

\* ------------------------------------------------------------ input domains
Users == {1, 2}
\* the (prompt, user_id, context) triples the callers present
Triples == {<<<<"a">>, 1, <<>>>>, <<<<"a">>, 2, <<>>>>,
            <<<<"a", "|", "1">>, 2, <<>>>>}
Kinds == {"psychology_consultation", "emotional_support"}
Responses == {<<>>, <<"O", "k">>}
Patterns == {<<"o">>}
MetaTypes == {"absent"}
\* the capacities config.cache_size gives the cache
CacheSizes == {0, 1, 2}
\* the triples the requests of the client are made with
Requests == {<<<<"a">>, 1, <<>>>>}
\* message.content of a chat completion, before .strip()
Completions == {Words(10) \o <<".">>,
                Words(10) \o <<".", "\n">>,
                Words(10) \o <<".", ".", ".">>,
                <<"O", "k", ".">>}
Continuations == {<<"e", "n", "d", ".">>}
Configs == {"complete", "BotConfig"}

\* ------------------------------------------------------------------- state
VARIABLES
  cache,      \* ResponseCache.cache: OrderedDict, oldest first
  stats,      \* ResponseCache.stats
  max_size,   \* ResponseCache.max_size
  now,        \* datetime.now(), in ticks
  last,       \* the last step on the cache, what it returned and evicted
  putKind,    \* history: key -> response kind of the put that wrote the entry
  useOrder,   \* history: keys by last insert-or-hit, oldest first
  config,     \* the configuration object the client was built with
  pc,         \* where the get_response in progress stands
  req,        \* the arguments of the current (or last) get_response
  run,        \* its local variables, and what it has done so far
  result,     \* what the last get_response gave its caller
  monitor,    \* TokenMonitor.usage_stats.total_requests
  truncated_responses, \* TokenMonitor.usage_stats.truncated_responses
  user_patterns, \* TokenMonitor.user_patterns: user_id -> UserPatterns
  clock,      \* datetime.now() as the monitor reads it, in quarter hours
  runs,       \* history: how many calls of auto_optimize_user and
              \* reset_user_stats the callers made, and per user when the
              \* last optimization ran and whether its pattern was stored
  created,    \* history: user_id -> when its UserPatterns was last stored
  calc,       \* the last call of a function of the libraries and its result
  usage_stats, \* usage_stats of the TokenManager of src/core: total_tokens
              \* and total_requests
  bot,        \* BotConversationHandler and the application that runs it
  security    \* SecurityManager, time.time() as it reads it, and its calls

cacheVars == <<cache, stats, max_size, now, last, putKind, useOrder>>
clientVars == <<config, pc, req, run, result, monitor,
               truncated_responses>>
monitorVars == <<user_patterns, clock, runs, created>>
libVars == <<calc, usage_stats>>
vars == <<cache, stats, max_size, now, last, putKind, useOrder,
          config, pc, req, run, result, monitor, truncated_responses,
          user_patterns, clock, runs, created, calc, usage_stats, bot,
          security>>

\* context.user_data of a user, empty: what its get(key, default) returns
NoUserData ==
  [consultation_type |-> "none", current_question |-> 0,
   consultation_answers |-> <<>>, consultation_questions |-> 0]

\* BotConversationHandler.__init__ and an application that has received no
\* update.  appended, cleared and events are history: the texts appended to
\* each user's conversation, how many of them had been appended when the
\* conversation was last cleared, and what happened to which update.
\* user_data is context.user_data per user; handled, backs and consultation
\* are history: the messages handled in and around a structured
\* consultation, how many of them went back a question, and the last one.
NewBot ==
  [conversation_history |-> <<>>,
   free_consultation_tracker |-> <<>>,
   update_queue |-> <<>>,
   tasks |-> <<>>,
   arrived |-> 0,
   events |-> <<>>,
   appended |-> [u \in Users |-> <<>>],
   cleared |-> [u \in Users |-> 0],
   user_data |-> [u \in Users |-> NoUserData],
   handled |-> 0,
   backs |-> 0,
   consultation |-> [op |-> "none"]]

\* SecurityManager.__init__.  user_requests is a defaultdict: a user it has not
\* seen has an empty deque.  time is time.time() in seconds; call, granted,
\* calls and advances are history: the last call and its result, the times
\* of the requests check_rate_limit allowed to each user, and how many calls
\* and clock changes there were.
NewSecurity ==
  [user_requests |-> [u \in Users |-> <<>>],
   security_alerts |-> <<>>,
   blocked_users |-> {},
   total_requests |-> 0,
   blocked_requests |-> 0,
   security_incidents |-> 0,
   time |-> 0,
   call |-> [fn |-> "none"],
   granted |-> [u \in Users |-> <<>>],
   calls |-> 0,
   advances |-> 0]

\* --------------------------------------------------------- ResponseCache
\* ttl_settings.get(response_type, default_ttl)
TTL(response_type) ==
  CASE response_type = "express_analysis" -> 3600
    [] response_type = "full_analysis" -> 7200
    [] response_type = "psychology_consultation" -> 1800
    [] response_type = "career_consultation" -> 3600
    [] response_type = "default" -> cache_ttl
    [] OTHER -> cache_ttl

\* _generate_cache_key: the string that is hashed (md5 taken as injective)
GenerateCacheKey(prompt, user_id, context) ==
  prompt \o <<"|">> \o IntToStr(user_id) \o <<"|">> \o context

\* _is_expired
IsExpired(cached_response, ttl, t) ==
  (t - cached_response.timestamp) * TickSeconds > ttl

KeysOf(c) == {c[i].prompt_hash : i \in 1..Len(c)}

IndexOf(c, key) == CHOOSE i \in 1..Len(c) : c[i].prompt_hash = key

\* del self.cache[key]
Del(c, key) == SelectSeq(c, LAMBDA e : e.prompt_hash # key)

\* a get that leaves the order of the dictionary as it is
MoveToEndForgotten(c, key) == c

\* OrderedDict.move_to_end(key)
MoveToEnd(c, key) == Del(c, key) \o <<c[IndexOf(c, key)]>>

\* an eviction that removes nothing
EvictNothing(c) == c

\* an eviction that removes the newest entry
EvictNewest(c) == IF c = <<>> THEN c ELSE SubSeq(c, 1, Len(c) - 1)

\* _evict_oldest: the cache after the call
EvictOldest(c) == IF c = <<>> THEN c ELSE Tail(c)

\* the dictionary after self.cache[cache_key] = cached_response
SetItem(c, e) ==
  IF e.prompt_hash \in KeysOf(c)
  THEN [c EXCEPT ![IndexOf(c, e.prompt_hash)] = e]
  ELSE Append(c, e)

\* a CachedResponse that starts counting its hits anew
NewEntryWithoutHits(c, prompt, response, user_id, context, meta_type, t) ==
  [response |-> response, timestamp |-> t, hit_count |-> 0,
   user_id |-> user_id,
   prompt_hash |-> GenerateCacheKey(prompt, user_id, context),
   meta_type |-> meta_type]

\* the CachedResponse put builds, with the hit_count of the entry it replaces
NewEntry(c, prompt, response, user_id, context, meta_type, t) ==
  LET key == GenerateCacheKey(prompt, user_id, context)
  IN [response |-> response, timestamp |-> t,
      hit_count |-> IF key \in KeysOf(c)
                    THEN c[IndexOf(c, key)].hit_count ELSE 0,
      user_id |-> user_id, prompt_hash |-> key, meta_type |-> meta_type]

\* the cache after put
PutCache(c, cap, prompt, response, user_id, context, meta_type, t) ==
  LET stored == SetItem(c, NewEntry(c, prompt, response, user_id, context,
                                    meta_type, t))
  IN IF Len(stored) > cap THEN EvictOldest(stored) ELSE stored

\* what put logs as removed, if anything: <<>> or <<key, age and hits>>
PutEvicted(c, cap, prompt, response, user_id, context, meta_type, t) ==
  LET stored == SetItem(c, NewEntry(c, prompt, response, user_id, context,
                                    meta_type, t))
  IN IF Len(stored) > cap /\ stored # <<>>
     THEN <<[prompt_hash |-> stored[1].prompt_hash,
             timestamp |-> stored[1].timestamp,
             hit_count |-> stored[1].hit_count]>>
     ELSE <<>>

\* the record of a cache operation
LastOp(op, args, ret, evicted, after_put) ==
  [op |-> op, args |-> args, ret |-> ret, evicted |-> evicted,
   after_put |-> after_put]

\* no arguments on record
NoArgs == [prompt |-> None, user_id |-> 0, context |-> None,
           response_type |-> "none", response |-> None]

\* what get returns
GetRet(c, prompt, user_id, context, response_type, t) ==
  LET key == GenerateCacheKey(prompt, user_id, context)
  IN IF key \notin KeysOf(c) THEN None
     ELSE IF IsExpired(c[IndexOf(c, key)], TTL(response_type), t) THEN None
     ELSE c[IndexOf(c, key)].response

\* the cache after get
GetCache(c, prompt, user_id, context, response_type, t) ==
  LET key == GenerateCacheKey(prompt, user_id, context)
  IN IF key \notin KeysOf(c) THEN c
     ELSE IF IsExpired(c[IndexOf(c, key)], TTL(response_type), t)
          THEN Del(c, key)
     ELSE MoveToEnd([c EXCEPT ![IndexOf(c, key)].hit_count = @ + 1], key)

\* the statistics after get
GetStats(s, ret) ==
  IF ret = None
  THEN [s EXCEPT !.total_requests = @ + 1, !.misses = @ + 1]
  ELSE [s EXCEPT !.total_requests = @ + 1, !.hits = @ + 1]

Restrict(f, S) == [k \in (DOMAIN f) \cap S |-> f[k]]

\* history of uses after an operation that leaves cache c2 and touches key
Touched(order, c2, key) ==
  LET kept == SelectSeq(order, LAMBDA k : k \in KeysOf(c2) /\ k # key)
  IN IF key \in KeysOf(c2) THEN Append(kept, key) ELSE kept

Kept(order, c2) == SelectSeq(order, LAMBDA k : k \in KeysOf(c2))

ZeroStats == [hits |-> 0, misses |-> 0, evictions |-> 0, total_requests |-> 0]

NoReq == [prompt |-> None, user_id |-> 0, context |-> None,
          prompt_type |-> "none", use_cache |-> FALSE, force_fresh |-> FALSE]

NoRun == [first |-> None, response |-> None, continuation |-> None,
          is_truncated |-> FALSE, call |-> "none", cont |-> "none",
          llm_calls |-> 0, planned |-> FALSE, tracked |-> FALSE,
          stored |-> FALSE]

NoResult == [returned |-> FALSE, raised |-> FALSE, content |-> None,
             cached |-> FALSE, truncated |-> FALSE, zero_usage |-> FALSE]

\* ResponseCache.__init__, and no request made yet
InitState ==
  /\ pc = "Idle"
  /\ req = NoReq
  /\ run = NoRun
  /\ result = NoResult
  /\ monitor = 0
  /\ truncated_responses = 0
  /\ user_patterns = <<>>
  /\ clock = 0
  /\ runs = [calls |-> 0, last |-> <<>>]
  /\ created = <<>>
  /\ calc = [fn |-> "none"]
  /\ usage_stats = [total_tokens |-> 0, total_requests |-> 0]
  /\ security = NewSecurity
  /\ bot = NewBot
  /\ cache = <<>>
  /\ stats = ZeroStats
  /\ now = 0
  /\ last = LastOp("init", NoArgs, None, <<>>, FALSE)
  /\ putKind = <<>>
  /\ useOrder = <<>>

\* a cache of any capacity, exercised through its own operations
InitCache ==
  /\ InitState
  /\ config = "complete"
  /\ max_size \in CacheSizes

\* a client built with either configuration, and a cache of one entry
Init ==
  /\ InitState
  /\ config \in Configs
  /\ max_size = 1

\* history: this get is the first operation after a put of the same key and
\* response kind, with no time passed since
AfterPut(key, response_type) ==
  /\ last.op = "put"
  /\ last.ret = key
  /\ key \in DOMAIN putKind
  /\ putKind[key] = response_type
  /\ \E i \in 1..Len(cache) :
       cache[i].prompt_hash = key /\ cache[i].timestamp = now

\* ResponseCache.get
Get(prompt, user_id, context, response_type) ==
  LET ret == GetRet(cache, prompt, user_id, context, response_type, now)
      key == GenerateCacheKey(prompt, user_id, context)
  IN /\ pc = "Idle"
     /\ stats.total_requests < MaxRequests
     /\ cache' = GetCache(cache, prompt, user_id, context, response_type, now)
     /\ stats' = GetStats(stats, ret)
     /\ last' = LastOp("get",
                        [prompt |-> prompt, user_id |-> user_id,
                         context |-> context, response_type |-> response_type,
                         response |-> None],
                        ret, <<>>, AfterPut(key, response_type))
     /\ putKind' = Restrict(putKind, KeysOf(cache'))
     /\ useOrder' = IF ret = None THEN Kept(useOrder, cache')
                    ELSE Touched(useOrder, cache', key)
     /\ UNCHANGED <<max_size, now>>
     /\ UNCHANGED clientVars
     /\ UNCHANGED <<monitorVars, libVars, bot, security>>

\* ResponseCache.put
Put(prompt, response, user_id, context, response_type, meta_type) ==
  LET key == GenerateCacheKey(prompt, user_id, context)
      evicts == key \notin KeysOf(cache) /\ Len(cache) + 1 > max_size
  IN /\ pc = "Idle"
     /\ evicts => stats.evictions < MaxEvictions
     /\ cache' = PutCache(cache, max_size, prompt, response, user_id,
                          context, meta_type, now)
     /\ stats' = IF evicts THEN [stats EXCEPT !.evictions = @ + 1] ELSE stats
     /\ last' = LastOp("put",
                        [prompt |-> prompt, user_id |-> user_id,
                         context |-> context, response_type |-> response_type,
                         response |-> response],
                        key,
                        PutEvicted(cache, max_size, prompt, response, user_id,
                                   context, meta_type, now), FALSE)
     /\ putKind' = Restrict([k \in (DOMAIN putKind) \cup {key} |->
                               IF k = key THEN response_type ELSE putKind[k]],
                            KeysOf(cache'))
     /\ useOrder' = IF key \in KeysOf(cache) THEN Kept(useOrder, cache')
                    ELSE Touched(useOrder, cache', key)
     /\ UNCHANGED <<max_size, now>>
     /\ UNCHANGED clientVars
     /\ UNCHANGED <<monitorVars, libVars, bot, security>>

\* an invalidation that empties the cache
InvalidateEveryUser(user_id) ==
  /\ pc = "Idle"
  /\ cache' = <<>>
  /\ last' = LastOp("invalidate_user", NoArgs, None, <<>>, FALSE)
  /\ putKind' = <<>>
  /\ useOrder' = <<>>
  /\ UNCHANGED <<stats, max_size, now>>
  /\ UNCHANGED clientVars
  /\ UNCHANGED <<monitorVars, libVars, bot, security>>

\* ResponseCache.invalidate_user
InvalidateUser(user_id) ==
  /\ pc = "Idle"
  /\ cache' = SelectSeq(cache, LAMBDA e : e.user_id # user_id)
  /\ last' = LastOp("invalidate_user", NoArgs, None, <<>>, FALSE)
  /\ putKind' = Restrict(putKind, KeysOf(cache'))
  /\ useOrder' = Kept(useOrder, cache')
  /\ UNCHANGED <<stats, max_size, now>>
  /\ UNCHANGED clientVars
  /\ UNCHANGED <<monitorVars, libVars, bot, security>>

\* ResponseCache.invalidate_pattern
InvalidatePattern(pattern) ==
  /\ pc = "Idle"
  /\ cache' = SelectSeq(cache,
                LAMBDA e : ~Contains(Lower(e.response), Lower(pattern)))
  /\ last' = LastOp("invalidate_pattern", NoArgs, None, <<>>, FALSE)
  /\ putKind' = Restrict(putKind, KeysOf(cache'))
  /\ useOrder' = Kept(useOrder, cache')
  /\ UNCHANGED <<stats, max_size, now>>
  /\ UNCHANGED clientVars
  /\ UNCHANGED <<monitorVars, libVars, bot, security>>

\* the TTL cleanup_expired applies to an entry: metadata.get('type', 'default')
CleanupTTL(e) ==
  TTL(IF e.meta_type = "absent" THEN "default" ELSE e.meta_type)

\* ResponseCache.cleanup_expired
CleanupExpired ==
  /\ pc = "Idle"
  /\ cache' = SelectSeq(cache, LAMBDA e : ~IsExpired(e, CleanupTTL(e), now))
  /\ last' = LastOp("cleanup_expired", NoArgs, Len(cache) - Len(cache'),
                     <<>>, FALSE)
  /\ putKind' = Restrict(putKind, KeysOf(cache'))
  /\ useOrder' = Kept(useOrder, cache')
  /\ UNCHANGED <<stats, max_size, now>>
  /\ UNCHANGED clientVars
  /\ UNCHANGED <<monitorVars, libVars, bot, security>>

\* ResponseCache.clear
Clear ==
  /\ pc = "Idle"
  /\ cache' = <<>>
  /\ stats' = ZeroStats
  /\ last' = LastOp("clear", NoArgs, None, <<>>, FALSE)
  /\ putKind' = <<>>
  /\ useOrder' = <<>>
  /\ UNCHANGED <<max_size, now>>
  /\ UNCHANGED clientVars
  /\ UNCHANGED <<monitorVars, libVars, bot, security>>

\* the wall clock advances between two operations
Tick ==
  /\ pc = "Idle"
  /\ now < MaxTime
  /\ now' = now + 1
  /\ last' = LastOp("tick", NoArgs, None, <<>>, FALSE)
  /\ clock' = clock + TickSeconds \div (ClockMinutes * 60)
  /\ UNCHANGED <<cache, stats, max_size, putKind, useOrder>>
  /\ UNCHANGED clientVars
  /\ UNCHANGED <<user_patterns, runs, created, libVars, bot, security>>

DoGet == \E tr \in Triples, k \in Kinds : Get(tr[1], tr[2], tr[3], k)

DoPut ==
  \E tr \in Triples, r \in Responses, k \in Kinds, m \in MetaTypes :
    Put(tr[1], r, tr[2], tr[3], k, m)

\* a put for one of the triples the requests use
DoPutRequest ==
  \E tr \in Requests, r \in Responses, k \in Kinds, m \in MetaTypes :
    Put(tr[1], r, tr[2], tr[3], k, m)

DoInvalidateUser == \E u \in Users : InvalidateUser(u)

\* triples whose prompt or context holds '|' and digits:
\* f"{prompt}|{user_id}|{context}" of the first two is "a|1|2|"
KeyTriples == {<<<<"a">>, 1, <<"2", "|">>>>, <<<<"a", "|", "1">>, 2, <<>>>>,
               <<<<"a">>, 2, <<>>>>, <<<<"a">>, 1, <<>>>>}
\* the response and metadata 'type' of a put
KeyPuts == {<<<<>>, "absent">>, <<<<"O", "k">>, "full_analysis">>}
KeySizes == {2, 3}

DoGetKey == \E tr \in KeyTriples : Get(tr[1], tr[2], tr[3], "default")

DoPutKey ==
  \E tr \in KeyTriples, p \in KeyPuts :
    Put(tr[1], p[1], tr[2], tr[3], "default", p[2])

DoInvalidatePattern == \E p \in Patterns : InvalidatePattern(p)

\* ------------------------------------------------------------ TokenManager
\* src/ai/token_manager.py: is_response_truncated, any() of six indicators
IsResponseTruncated(response) ==
  \/ EndsWith(response, <<".", ".", ".">>)
  \/ EndsWith(response, <<".", ".", ".">>)
  \/ ~EndsWith(response, <<".">>)
  \/ ~EndsWith(response, <<"!">>)
  \/ ~EndsWith(response, <<"?">>)
  \/ WordCount(response) < 10

ToBeContinued ==
  <<"t", "o", " ", "b", "e", " ", "c", "o", "n", "t", "i", "n", "u", "e", "d">>

\* 'продолжение следует', each Cyrillic letter named by its code point
ProdolzhenieSleduet ==
  <<
    "U+043F", "U+0440", "U+043E", "U+0434", "U+043E", "U+043B",
    "U+0436", "U+0435", "U+043D", "U+0438", "U+0435", " ",
    "U+0441", "U+043B", "U+0435", "U+0434", "U+0443", "U+0435",
    "U+0442"
  >>

\* src/core/token_manager.py: is_response_truncated, any() of eight indicators
IsResponseTruncatedCore(response) ==
  \/ EndsWith(response, <<".", ".", ".">>)
  \/ EndsWith(response, <<"U+2026">>)
  \/ ~EndsWith(response, <<".">>)
  \/ ~EndsWith(response, <<"!">>)
  \/ ~EndsWith(response, <<"?">>)
  \/ WordCount(response) < 10
  \/ Contains(Lower(response), ProdolzhenieSleduet)
  \/ Contains(Lower(response), ToBeContinued)

\* the first index at which sep occurs in s, 0 if it does not occur
Find(s, sep) ==
  LET hits == {i \in 1..(Len(s) - Len(sep) + 1) :
                 SubSeq(s, i, i + Len(sep) - 1) = sep}
  IN IF hits = {} THEN 0 ELSE CHOOSE i \in hits : \A j \in hits : i <= j

RECURSIVE Split(_, _)
\* str.split(sep)
Split(s, sep) ==
  LET i == Find(s, sep)
  IN IF i = 0 THEN <<s>>
     ELSE <<SubSeq(s, 1, i - 1)>> \o Split(SubSeq(s, i + Len(sep), Len(s)), sep)

RECURSIVE SentenceLoop(_, _, _, _)
\* the loop of _split_long_paragraph over the sentences, then the last append
SentenceLoop(sentences, parts, current_part, max_length) ==
  IF sentences = <<>>
  THEN IF current_part # <<>> THEN Append(parts, Strip(current_part)) ELSE parts
  ELSE LET sentence == Head(sentences)
       IN IF Len(current_part) + Len(sentence) <= max_length
          THEN SentenceLoop(Tail(sentences), parts,
                 IF current_part # <<>>
                 THEN current_part \o <<".", " ">> \o sentence ELSE sentence,
                 max_length)
          ELSE SentenceLoop(Tail(sentences),
                 IF current_part # <<>>
                 THEN Append(parts, Strip(current_part)) ELSE parts,
                 sentence, max_length)

\* _split_long_paragraph
SplitLongParagraph(paragraph, max_length) ==
  SentenceLoop(Split(paragraph, <<".", " ">>), <<>>, <<>>, max_length)

RECURSIVE ParagraphLoop(_, _, _, _)
\* the loop of split_long_response over the paragraphs, then the last append;
\* sub_parts[-1] of an empty list raises IndexError, given here as <<None>>
ParagraphLoop(paragraphs, parts, current_part, max_length) ==
  IF paragraphs = <<>>
  THEN IF current_part # <<>> THEN Append(parts, Strip(current_part)) ELSE parts
  ELSE LET paragraph == Head(paragraphs)
           flushed == IF current_part # <<>>
                      THEN Append(parts, Strip(current_part)) ELSE parts
           sub_parts == SplitLongParagraph(paragraph, max_length)
       IN IF Len(current_part) + Len(paragraph) <= max_length
          THEN ParagraphLoop(Tail(paragraphs), parts,
                 IF current_part # <<>>
                 THEN current_part \o <<"\n", "\n">> \o paragraph
                 ELSE paragraph,
                 max_length)
          ELSE IF Len(paragraph) > max_length
          THEN IF sub_parts = <<>> THEN <<None>>
               ELSE ParagraphLoop(Tail(paragraphs),
                      flushed \o SubSeq(sub_parts, 1, Len(sub_parts) - 1),
                      sub_parts[Len(sub_parts)], max_length)
          ELSE ParagraphLoop(Tail(paragraphs), flushed, paragraph, max_length)

\* split_long_response
SplitLongResponse(response, max_length) ==
  IF Len(response) <= max_length THEN <<response>>
  ELSE ParagraphLoop(Split(response, <<"\n", "\n">>), <<>>, <<>>, max_length)

\* the answers split_long_response is called with: one that fits in 4, two
\* and three short paragraphs, three short sentences, and one long sentence
SplitTexts == {<<"a", "b", "c", "d">>,
               <<"a", "b", "c", "\n", "\n", "d", "e", "f">>,
               <<"a", "b", "\n", "\n", "c", "d", "\n", "\n", "e", "f">>,
               <<"a", "b", ".", " ", "c", "d", ".", " ", "e", "f">>,
               <<"a", "b", "c", "d", "e", "f", "g", "h", "i">>}
SplitLengths == {4, 8}

\* a call of split_long_response with an explicit max_length
SplitResponse(response, max_length) ==
  /\ pc = "Idle"
  /\ calc' = [fn |-> "split_long_response", response |-> response,
              max_length |-> max_length,
              ret |-> SplitLongResponse(response, max_length)]
  /\ UNCHANGED usage_stats
  /\ UNCHANGED monitorVars
  /\ UNCHANGED clientVars
  /\ UNCHANGED <<cacheVars, bot, security>>

DoSplitResponse ==
  \E r \in SplitTexts, n \in SplitLengths : SplitResponse(r, n)

\* ------------------------------------------------------------ TokenMonitor
RECURSIVE Pow(_, _)
Pow(b, n) == IF n <= 0 THEN 1 ELSE b * Pow(b, n - 1)

\* avg_response_length is kept as an integer number of 1/AvgScale characters
\* and satisfaction_score as an integer number of 1/SatScale points, the
\* averages 0.8 a + 0.2 r and 0.7 s + 0.3 v rounded down to these units.
AvgScale == Pow(5, 3)
SatScale == Pow(10, 3)

\* truncation_rate is a Python float (an IEEE 754 double).  It is kept as
\* [k, d]: the double nearest to k/20, plus d units of 2^-57, so that the sums
\* r + 0.1 and r - 0.05 round as the doubles do: 0.1 + 0.1 + 0.1 is [6, 8],
\* which is greater than the literal 0.3, [6, 0].
\* the double nearest to k/20 in units of 2^-57, modulo 64, for k = 0..20
DoubleMod64 ==
  <<0, 26, 52, 12, 40, 0, 24, 48, 16, 40, 0, 32, 48, 16, 32, 0, 32, 48, 16,
    32, 0>>

\* double(k/20) + double(0.1) - double((k+2)/20) in units of 2^-57, k = 0..18
PlusTenth ==
  <<0, 2, 0, 0, 4, 4, -4, -4, 4, -4, 4, 4, 4, 4, -12, 4, 4, 4, 4>>

\* double(k/20) - double(0.05) - double((k-1)/20) in units of 2^-57, k = 1..20
MinusTwentieth ==
  <<0, 0, -2, 2, -2, -2, -2, 6, -2, -2, 6, -10, 6, -10, 6, 6, -10, 6, -10, 6>>

\* the spacing of the doubles around double(k/20) + t, in units of 2^-57
Ulp(k, t) ==
  CASE k <= 1 -> 1
    [] k = 2 -> 2
    [] k \in 3..4 -> 4
    [] k = 5 -> IF t >= 0 THEN 8 ELSE 4
    [] k \in 6..9 -> 8
    [] k = 10 -> IF t >= 0 THEN 16 ELSE 8
    [] k \in 11..19 -> 16
    [] OTHER -> IF t >= 0 THEN 32 ELSE 16

\* double(k/20) + t rounded to the nearest double, ties to the even one: the
\* distance of the result from double(k/20)
RoundToDouble(k, t) ==
  LET U == Ulp(k, t)
      r == (DoubleMod64[k + 1] + t + 64 * 64) % (2 * U)
      m == r % U
  IN IF 2 * m < U THEN t - m
     ELSE IF 2 * m > U THEN t - m + U
     ELSE IF r = m THEN t - m ELSE t - m + U

\* the literal k/20 as a float
Rate(k) == [k |-> k, d |-> 0]

\* float comparisons a > b and a <= b
RateGreater(a, b) == a.k > b.k \/ (a.k = b.k /\ a.d > b.d)
RateAtMost(a, b) == ~RateGreater(a, b)

\* satisfaction: Optional[float], <<>> for None and <<v>> for a value
NoSatisfaction == <<>>

\* UserPatterns(user_id=user_id) built at time t
NewPattern(t) ==
  [preferred_prompt_length |-> "medium", preferred_style |-> "balanced",
   avg_response_length |-> 0, truncation_rate |-> Rate(0),
   satisfaction_score |-> 0, last_optimization |-> t]

\* track_request, lines 90-96
AvgAfter(avg, response_length) ==
  IF avg = 0 THEN response_length * AvgScale
  ELSE (4 * avg + response_length * AvgScale) \div 5

\* a truncation rate that grows without a ceiling
TruncationUnclamped(rate, truncated) ==
  IF truncated THEN [rate EXCEPT !.k = @ + 2] ELSE [rate EXCEPT !.k = @ - 1]

\* track_request, lines 98-106
TruncationAfter(rate, truncated) ==
  IF truncated
  THEN IF rate.k + 2 > 20 THEN Rate(20)
       ELSE LET sum == [k |-> rate.k + 2,
                        d |-> RoundToDouble(rate.k + 2,
                                            rate.d + PlusTenth[rate.k + 1])]
            IN IF RateGreater(Rate(20), sum) THEN sum ELSE Rate(20)
  ELSE IF rate.k = 0 THEN Rate(0)
       ELSE LET diff == [k |-> rate.k - 1,
                         d |-> RoundToDouble(rate.k - 1,
                                             rate.d + MinusTwentieth[rate.k])]
            IN IF RateGreater(diff, Rate(0)) THEN diff ELSE Rate(0)

\* track_request, lines 108-115
SatisfactionAfter(score, satisfaction) ==
  IF satisfaction = NoSatisfaction THEN score
  ELSE IF score = 0 THEN satisfaction[1] * SatScale
  ELSE (7 * score + 3 * satisfaction[1] * SatScale) \div 10

\* track_request, lines 85-115: the patterns before the optimization check
Tracked(ps, user_id, response_length, truncated, satisfaction, t) ==
  LET p == IF user_id \in DOMAIN ps THEN ps[user_id] ELSE NewPattern(t)
      q == [p EXCEPT
              !.avg_response_length = AvgAfter(@, response_length),
              !.truncation_rate = TruncationAfter(@, truncated),
              !.satisfaction_score = SatisfactionAfter(@, satisfaction)]
  IN [u \in (DOMAIN ps) \cup {user_id} |-> IF u = user_id THEN q ELSE ps[u]]

\* _check_optimization_needed: it calls auto_optimize_user
CheckRuns(ps, user_id, t) ==
  LET p == IF user_id \in DOMAIN ps THEN ps[user_id] ELSE NewPattern(t)
  IN /\ ~((t - p.last_optimization) * ClockMinutes < 30)
     /\ \/ RateGreater(p.truncation_rate, Rate(4))
        \/ (p.satisfaction_score > 0 /\ p.satisfaction_score < 3 * SatScale)
        \/ p.avg_response_length < 100 * AvgScale

\* applied_optimizations of auto_optimize_user working on pattern p: the
\* types of the auto_apply suggestions that _apply_optimization accepts, in
\* the order get_optimization_suggestions lists them
AppliedOptimizations(p) ==
  (IF RateGreater(p.truncation_rate, Rate(4))
   THEN <<"prompt_length">> ELSE <<>>)
  \o (IF p.satisfaction_score > 0 /\ p.satisfaction_score < 3 * SatScale
      THEN <<"style_adaptation">> ELSE <<>>)

\* an optimization that reports the prompt_length action and leaves the
\* preferred length where it was
OptimizedKeepsLength(p) ==
  IF p.satisfaction_score > 0 /\ p.satisfaction_score < 3 * SatScale
  THEN [p EXCEPT !.preferred_style = "detailed"] ELSE p

\* _apply_optimization for the suggestions get_optimization_suggestions marks
\* auto_apply: prompt_length and style_adaptation change the pattern,
\* global_optimization is refused
Optimized(p) ==
  LET shorter == CASE p.preferred_prompt_length = "long" -> "medium"
                   [] p.preferred_prompt_length = "medium" -> "short"
                   [] OTHER -> p.preferred_prompt_length
      q == IF RateGreater(p.truncation_rate, Rate(4))
           THEN [p EXCEPT !.preferred_prompt_length = shorter] ELSE p
  IN IF q.satisfaction_score > 0 /\ q.satisfaction_score < 3 * SatScale
     THEN [q EXCEPT !.preferred_style = "detailed"] ELSE q

\* get_optimization_suggestions on pattern p with the usage_stats of the
\* monitor: the suggestions in the order they are listed
GetOptimizationSuggestions(p, truncated, total) ==
  (IF RateGreater(p.truncation_rate, Rate(4))
   THEN <<[type |-> "prompt_length", auto_apply |-> TRUE]>> ELSE <<>>)
  \o (IF p.avg_response_length < 200 * AvgScale
      THEN <<[type |-> "response_expansion", auto_apply |-> FALSE]>>
      ELSE <<>>)
  \o (IF p.satisfaction_score > 0 /\ p.satisfaction_score < 3 * SatScale
      THEN <<[type |-> "style_adaptation", auto_apply |-> TRUE]>> ELSE <<>>)
  \o (IF 20 * truncated > 3 * (IF total > 1 THEN total ELSE 1)
      THEN <<[type |-> "global_optimization", auto_apply |-> TRUE]>>
      ELSE <<>>)

\* remaining_suggestions of auto_optimize_user
NotAutoApply(s) == ~s.auto_apply
RemainingSuggestions(suggestions) == SelectSeq(suggestions, NotAutoApply)

\* auto_optimize_user: user_patterns afterwards.  For a user with no stored
\* pattern the UserPatterns it works on is the default of dict.get, which is
\* stored nowhere.
AutoOptimized(ps, user_id, t) ==
  IF user_id \in DOMAIN ps
  THEN [ps EXCEPT ![user_id] = [Optimized(@) EXCEPT !.last_optimization = t]]
  ELSE ps

\* f with f[k] = v, k added to its domain if need be
With(f, k, v) == [x \in (DOMAIN f) \cup {k} |-> IF x = k THEN v ELSE f[x]]

\* history after an auto_optimize_user run for user_id at time t on patterns ps
RunAt(rs, ps, user_id, t, by) ==
  [calls |-> rs.calls,
   last |-> With(rs.last, user_id,
                 [at |-> t, by |-> by, stored |-> user_id \in DOMAIN ps])]

\* TokenMonitor.track_request
\* the calls made on the monitor since it was set up
MonitorCalls == (monitor - SeedCalls) + runs.calls

TrackRequest(user_id, response_length, truncated, satisfaction) ==
  LET tracked == Tracked(user_patterns, user_id, response_length, truncated,
                         satisfaction, clock)
      ran == CheckRuns(tracked, user_id, clock)
  IN /\ pc = "Idle"
     /\ MonitorCalls < MaxTrackCalls
     /\ monitor' = monitor + 1
     /\ truncated_responses' = truncated_responses
                                + (IF truncated THEN 1 ELSE 0)
     /\ user_patterns' = IF ran THEN AutoOptimized(tracked, user_id, clock)
                         ELSE tracked
     /\ runs' = IF ran
                THEN RunAt(runs, tracked, user_id, clock, "track_request")
                ELSE runs
     /\ created' = IF user_id \in DOMAIN user_patterns THEN created
                   ELSE With(created, user_id, clock)
     /\ calc' = [fn |-> "track_request", user_id |-> user_id, ran |-> ran,
                 applied |-> IF ran
                             THEN AppliedOptimizations(tracked[user_id])
                             ELSE <<>>]
     /\ UNCHANGED usage_stats
     /\ UNCHANGED <<clock, config, pc, req, run, result>>
     /\ UNCHANGED <<cacheVars, bot, security>>

\* TokenMonitor.auto_optimize_user, called from outside track_request
\* (OpenAIClient.optimize_user_experience)
AutoOptimizeUser(user_id) ==
  /\ pc = "Idle"
  /\ MonitorCalls < MaxTrackCalls
  /\ user_patterns' = AutoOptimized(user_patterns, user_id, clock)
  /\ runs' = [RunAt(runs, user_patterns, user_id, clock, "caller")
               EXCEPT !.calls = @ + 1]
  /\ LET p == IF user_id \in DOMAIN user_patterns
              THEN user_patterns[user_id] ELSE NewPattern(clock)
         suggestions == GetOptimizationSuggestions(p, truncated_responses,
                                                   monitor)
     IN calc' = [fn |-> "auto_optimize_user", user_id |-> user_id,
                 ran |-> TRUE, applied |-> AppliedOptimizations(p),
                 suggestions |-> suggestions,
                 remaining |-> RemainingSuggestions(suggestions)]
  /\ UNCHANGED usage_stats
  /\ UNCHANGED <<clock, created>>
  /\ UNCHANGED clientVars
  /\ UNCHANGED <<cacheVars, bot, security>>

\* TokenMonitor.reset_user_stats
ResetUserStats(user_id) ==
  /\ pc = "Idle"
  /\ MonitorCalls < MaxTrackCalls
  /\ user_id \in DOMAIN user_patterns
  /\ user_patterns' = [u \in (DOMAIN user_patterns) \ {user_id} |->
                         user_patterns[u]]
  /\ runs' = [runs EXCEPT !.calls = @ + 1]
  /\ calc' = [fn |-> "reset_user_stats", user_id |-> user_id, ran |-> FALSE]
  /\ UNCHANGED usage_stats
  /\ UNCHANGED <<clock, created>>
  /\ UNCHANGED clientVars
  /\ UNCHANGED <<cacheVars, bot, security>>

\* the wall clock advances between two calls of the monitor
TickClock ==
  /\ pc = "Idle"
  /\ clock < MaxClock
  /\ clock' = clock + 1
  /\ calc' = [fn |-> "none"]
  /\ UNCHANGED usage_stats
  /\ UNCHANGED <<user_patterns, runs, created>>
  /\ UNCHANGED clientVars
  /\ UNCHANGED <<cacheVars, bot, security>>

RECURSIVE SeedPatterns(_, _)
\* user_patterns after n more truncated requests of user 1 at time 0
SeedPatterns(n, ps) ==
  IF n <= 0 THEN ps
  ELSE SeedPatterns(n - 1, Tracked(ps, 1, 500, TRUE, NoSatisfaction, 0))

\* response_length, truncated and satisfaction as the callers may pass them
TrackInputs == {<<500, TRUE, NoSatisfaction>>, <<600, FALSE, NoSatisfaction>>,
                <<50, FALSE, <<2>>>>, <<500, FALSE, <<10>>>>}

DoTrackRequest ==
  \E u \in Users, i \in TrackInputs : TrackRequest(u, i[1], i[2], i[3])

DoAutoOptimizeUser == \E u \in Users : AutoOptimizeUser(u)

DoResetUserStats == \E u \in Users : ResetUserStats(u)

\* ------------------------------------------------------------ token budget
\* TokenManager (src/ai/token_manager.py, src/core/token_manager.py) with the
\* limits of Config / BotConfig at their default values.  Tokens are counted
\* by the character estimate, which the core manager always uses and the ai
\* manager uses when no encoder could be loaded.  estimated_cost and
\* processing_time of TokenUsage are floating-point values that no decision
\* reads; they are not kept.
Min(a, b) == IF a <= b THEN a ELSE b
Max(a, b) == IF a >= b THEN a ELSE b

\* a text of n characters ch
Fill(ch, n) == [i \in 1..n |-> ch]

RECURSIVE Join(_, _)
\* sep.join(parts)
Join(parts, sep) ==
  IF parts = <<>> THEN <<>>
  ELSE IF Len(parts) = 1 THEN parts[1]
  ELSE parts[1] \o sep \o Join(Tail(parts), sep)

\* count_tokens: len(text) // 4
CountTokens(text) == Len(text) \div 4

\* get_user_limits(user_type)["max_tokens"]; an unknown tier gets the free one
GetUserLimits(user_type) ==
  IF user_type = "premium" THEN MAX_TOKENS + 1000 ELSE MAX_TOKENS

\* get_adaptive_limits(conversation_length, user_type)["max_tokens"]
GetAdaptiveLimits(conversation_length, user_type) ==
  LET base == GetUserLimits(user_type)
  IN IF conversation_length > 15 THEN Max(MIN_TOKENS, base - 500)
     ELSE IF conversation_length < 5 THEN Min(MAX_TOKENS + 500, base + 200)
     ELSE base

\* TokenMonitor.get_optimal_token_limit on patterns ps.  base_limit is
\* get_user_limits("free")["max_tokens"], 4000 with either configuration
\* class, and int(4000 * 0.7) = 2800, int(4000 * 1.2) = 4800 as floats too.
GetOptimalTokenLimit(ps, user_id, context_length) ==
  LET p == IF user_id \in DOMAIN ps THEN ps[user_id] ELSE NewPattern(0)
      base_limit == GetUserLimits("free")
      optimal_limit ==
        IF RateGreater(p.truncation_rate, Rate(6))
        THEN (base_limit * 7) \div 10
        ELSE IF p.avg_response_length > 500 * AvgScale
             THEN (base_limit * 12) \div 10
             ELSE base_limit
  IN IF context_length > 15
     THEN Max(optimal_limit - 500, MIN_TOKENS)
     ELSE IF context_length < 5
          THEN Min(optimal_limit + 300, MAX_TOKENS + 500)
          ELSE optimal_limit

\* get_optimal_token_limit as a call of its own.  BotConfig has no MIN_TOKENS
\* and no MAX_TOKENS attribute: lines 172 and 174 raise AttributeError.
OptimalTokenLimit(user_id, context_length) ==
  /\ pc = "Idle"
  /\ MonitorCalls < MaxTrackCalls
  /\ runs' = [runs EXCEPT !.calls = @ + 1]
  /\ calc' = IF config = "BotConfig"
                 /\ (context_length > 15 \/ context_length < 5)
              THEN [fn |-> "get_optimal_token_limit", user_id |-> user_id,
                    ran |-> FALSE, context_length |-> context_length,
                    raised |-> TRUE]
              ELSE [fn |-> "get_optimal_token_limit", user_id |-> user_id,
                    ran |-> FALSE, context_length |-> context_length,
                    raised |-> FALSE,
                    ret |-> GetOptimalTokenLimit(user_patterns, user_id,
                                                 context_length)]
  /\ UNCHANGED usage_stats
  /\ UNCHANGED <<user_patterns, clock, created>>
  /\ UNCHANGED clientVars
  /\ UNCHANGED <<cacheVars, bot, security>>

\* context lengths of the three bands: below 5, 5 to 15, above 15
ContextLengths == {4, 5, 15, 16}

DoOptimalTokenLimit ==
  \E u \in Users, n \in ContextLengths : OptimalTokenLimit(u, n)

\* len(context.split('\n')) if context else 0
ConversationLength(context) ==
  IF context = <<>> THEN 0 ELSE Len(Split(context, <<"\n">>))

\* key_words of _compress_context in src/ai/token_manager.py
KeyWordsAI ==
  {<<"U+0432", "U+0430", "U+0436", "U+043D", "U+043E">>,
   <<
     "U+043F", "U+0440", "U+043E", "U+0431", "U+043B", "U+0435",
     "U+043C", "U+0430"
   >>,
   <<"U+0446", "U+0435", "U+043B", "U+044C">>,
   <<"U+043C", "U+0435", "U+0447", "U+0442", "U+0430">>,
   <<"U+0441", "U+0442", "U+0440", "U+0430", "U+0445">>,
   <<
     "U+0442", "U+0440", "U+0435", "U+0432", "U+043E", "U+0433",
     "U+0430"
   >>,
   <<"U+0440", "U+0430", "U+0431", "U+043E", "U+0442", "U+0430">>,
   <<
     "U+043A", "U+0430", "U+0440", "U+044C", "U+0435", "U+0440",
     "U+0430"
   >>}

\* key_words of _compress_context in src/core/token_manager.py
KeyWordsCore ==
  KeyWordsAI \cup
  {<<
     "U+043E", "U+0442", "U+043D", "U+043E", "U+0448", "U+0435",
     "U+043D", "U+0438", "U+044F"
   >>,
   <<"U+0441", "U+0435", "U+043C", "U+044C", "U+044F">>,
   <<"U+043B", "U+044E", "U+0431", "U+043E", "U+0432", "U+044C">>,
   <<"U+0434", "U+0435", "U+043D", "U+044C", "U+0433", "U+0438">>}

RECURSIVE TruncateLoop(_, _)
\* while count_tokens(compressed) > max_tokens and len(compressed) > 100
TruncateLoop(compressed, max_tokens) ==
  IF CountTokens(compressed) > max_tokens /\ Len(compressed) > 100
  THEN TruncateLoop(SubSeq(compressed, 1, Len(compressed) - 100)
                      \o <<".", ".", ".">>, max_tokens)
  ELSE compressed

\* _compress_context: the sentences with a key word, then the last three
CompressContext(context, max_tokens, key_words) ==
  LET sentences == Split(context, <<".", " ">>)
      n == Len(sentences)
      HasKeyWord(s) == \E w \in key_words : Contains(Lower(s), w)
      keyed == IF n > 3 THEN SelectSeq(SubSeq(sentences, 1, n - 3), HasKeyWord)
               ELSE <<>>
      important_sentences == keyed \o SubSeq(sentences, Max(1, n - 2), n)
  IN IF CountTokens(context) <= max_tokens THEN context
     ELSE TruncateLoop(Join(important_sentences, <<".", " ">>), max_tokens)

\* estimate_response_tokens of src/core/token_manager.py
EstimateResponseTokens(prompt_tokens, context_length, prompt_type) ==
  LET base == CASE prompt_type = "express_analysis" -> 300
                [] prompt_type = "full_analysis" -> 800
                [] prompt_type = "psychology_consultation" -> 200
                [] prompt_type = "career_consultation" -> 400
                [] prompt_type = "self_esteem_analysis" -> 600
                [] OTHER -> 500
      byPrompt == IF prompt_tokens > 2000 THEN Min(base + 200, 1000)
                  ELSE IF prompt_tokens < 500 THEN Max(base - 100, 100)
                  ELSE base
      byContext == IF context_length > 10 THEN Min(byPrompt + 150, 1000)
                   ELSE IF context_length < 3 THEN Max(byPrompt - 50, 100)
                   ELSE byPrompt
  IN Min(byContext, RESPONSE_TOKENS)

\* the context optimize_prompt returns
PlannedContext(prompt, context, user_type, key_words) ==
  LET prompt_tokens == CountTokens(prompt)
      max_tokens == GetAdaptiveLimits(ConversationLength(context), user_type)
      available_for_prompt == max_tokens - RESPONSE_TOKENS
      room == available_for_prompt - prompt_tokens
      max_context_tokens == IF room <= 0 THEN MIN_TOKENS ELSE room
  IN IF prompt_tokens + CountTokens(context) <= available_for_prompt
     THEN context
     ELSE CompressContext(context, max_context_tokens, key_words)

\* optimize_prompt of src/ai/token_manager.py: prompt, context, TokenUsage
OptimizePromptAI(prompt, context, user_type) ==
  LET planned == PlannedContext(prompt, context, user_type, KeyWordsAI)
      tokens == CountTokens(prompt) + CountTokens(planned)
  IN [prompt |-> prompt, context |-> planned,
      usage |-> [prompt_tokens |-> CountTokens(prompt),
                 completion_tokens |-> RESPONSE_TOKENS,
                 total_tokens |-> tokens + RESPONSE_TOKENS]]

\* optimize_prompt of src/core/token_manager.py: prompt, context, TokenUsage
OptimizePromptCore(prompt, context, user_type, prompt_type) ==
  LET planned == PlannedContext(prompt, context, user_type, KeyWordsCore)
      tokens == CountTokens(prompt) + CountTokens(planned)
      estimated_response_tokens ==
        EstimateResponseTokens(CountTokens(prompt), ConversationLength(context),
                               prompt_type)
  IN [prompt |-> prompt, context |-> planned,
      usage |-> [prompt_tokens |-> CountTokens(prompt),
                 completion_tokens |-> estimated_response_tokens,
                 total_tokens |-> tokens + estimated_response_tokens]]

\* what a call of optimize_prompt that returned ret leaves for inspection
PlanRecord(manager, prompt, context, user_type, ret) ==
  [fn |-> "optimize_prompt", manager |-> manager, raised |-> FALSE,
   prompt_tokens |-> CountTokens(prompt), context_length |-> Len(context),
   context_tokens |-> CountTokens(context), user_type |-> user_type,
   max_tokens |-> GetAdaptiveLimits(ConversationLength(context), user_type),
   prompt_unchanged |-> ret.prompt = prompt,
   context_unchanged |-> ret.context = context,
   ret_context |-> ret.context, usage |-> ret.usage]

\* the inputs of optimize_prompt: prompts by their length in characters,
\* contexts of one line, of five sentences (the first with the key word
\* 'цель', named by code points), of 600 characters without a sentence end,
\* and of twenty lines
PromptLengths == {200, 12200, 12400, 12760, 12800, 16000}
Tsel == <<"U+0446", "U+0435", "U+043B", "U+044C">>
FiveSentences ==
  Join(<<Tsel \o Fill("c", 96)>> \o [i \in 1..4 |-> Fill("c", 100)],
       <<".", " ">>)
TwentyLines == Join([i \in 1..20 |-> Fill("c", 30)], <<"\n">>)
PlanContexts == {<<>>, Fill("c", 100), Fill("c", 800), FiveSentences,
                 Fill("c", 600), TwentyLines}
UserTypes == {"free", "premium"}
PromptTypes == {"general", "full_analysis"}
\* the core manager is called on fewer of them: its usage_stats add up
CorePromptLengths == {200, 12760}
CoreContexts == {Fill("c", 100), Fill("c", 800), FiveSentences}

\* the results of the two optimize_prompt on these inputs, computed once
PlansAI ==
  [n \in PromptLengths, c \in PlanContexts, t \in UserTypes |->
     PlanRecord("ai", Fill("p", n), c, t, OptimizePromptAI(Fill("p", n), c, t))]
PlansCore ==
  [n \in CorePromptLengths, c \in CoreContexts, t \in UserTypes,
   k \in PromptTypes |->
     PlanRecord("core", Fill("p", n), c, t,
                OptimizePromptCore(Fill("p", n), c, t, k))]

\* the call ended with AttributeError: the ai manager reads RESPONSE_TOKENS
\* and MIN_TOKENS, which BotConfig does not have, and the core manager reads
\* response_tokens and min_tokens, which Config does not have
PlanRaised(plan) ==
  [plan EXCEPT !.raised = TRUE, !.prompt_unchanged = FALSE,
               !.context_unchanged = FALSE, !.ret_context = None,
               !.usage = None]

\* the ai manager's optimize_prompt is called with a prompt of prompt_length
\* characters; it keeps no statistics
PlanAI(prompt_length, context, user_type) ==
  /\ pc = "Idle"
  /\ calc' = IF config = "BotConfig"
             THEN PlanRaised(PlansAI[prompt_length, context, user_type])
             ELSE PlansAI[prompt_length, context, user_type]
  /\ UNCHANGED usage_stats
  /\ UNCHANGED monitorVars
  /\ UNCHANGED clientVars
  /\ UNCHANGED <<cacheVars, bot, security>>

\* the core manager's optimize_prompt is called, _update_stats included
PlanCore(prompt_length, context, user_type, prompt_type) ==
  LET plan == PlansCore[prompt_length, context, user_type, prompt_type]
  IN /\ pc = "Idle"
     /\ usage_stats.total_requests < MaxPlans
     /\ IF config = "Config"
        THEN /\ calc' = PlanRaised(plan)
             /\ usage_stats' = usage_stats
        ELSE /\ calc' = plan
             /\ usage_stats' =
                  [total_tokens |->
                     usage_stats.total_tokens + plan.usage.total_tokens,
                   total_requests |-> usage_stats.total_requests + 1]
     /\ UNCHANGED monitorVars
     /\ UNCHANGED clientVars
     /\ UNCHANGED <<cacheVars, bot, security>>

\* a call of get_adaptive_limits
AdaptiveLimits(conversation_length, user_type) ==
  /\ pc = "Idle"
  /\ calc' = [fn |-> "get_adaptive_limits",
              conversation_length |-> conversation_length,
              user_type |-> user_type,
              ret |-> GetAdaptiveLimits(conversation_length, user_type)]
  /\ UNCHANGED usage_stats
  /\ UNCHANGED monitorVars
  /\ UNCHANGED clientVars
  /\ UNCHANGED <<cacheVars, bot, security>>

DoPlanAI ==
  \E n \in PromptLengths, c \in PlanContexts, t \in UserTypes :
    PlanAI(n, c, t)

DoPlanCore ==
  \E n \in CorePromptLengths, c \in CoreContexts, k \in PromptTypes :
    PlanCore(n, c, "free", k)

DoAdaptiveLimits ==
  \E n \in 0..MaxConversation, t \in UserTypes \cup {"vip"} :
    AdaptiveLimits(n, t)

\* ------------------------------------------------------- ContextCompressor
\* src/core/context_compressor.py.  The importance of a message is kept as an
\* integer number of 1/(16000 * total) points: the weights 0.3 (position),
\* 0.5 / 0.3 / 0.1 (key words), 0.2 (length / 200) and 0.3 (patterns / 8) are
\* exact in these units.
HighKeywords ==
  {<<"U+0432", "U+0430", "U+0436", "U+043D", "U+043E">>,
   <<
     "U+043F", "U+0440", "U+043E", "U+0431", "U+043B", "U+0435",
     "U+043C", "U+0430"
   >>,
   <<"U+0446", "U+0435", "U+043B", "U+044C">>,
   <<"U+043C", "U+0435", "U+0447", "U+0442", "U+0430">>,
   <<"U+0441", "U+0442", "U+0440", "U+0430", "U+0445">>,
   <<
     "U+0442", "U+0440", "U+0435", "U+0432", "U+043E", "U+0433",
     "U+0430"
   >>,
   <<"U+043A", "U+0440", "U+0438", "U+0437", "U+0438", "U+0441">>,
   <<"U+0441", "U+0440", "U+043E", "U+0447", "U+043D", "U+043E">>}

MediumKeywords ==
  {<<"U+0440", "U+0430", "U+0431", "U+043E", "U+0442", "U+0430">>,
   <<
     "U+043A", "U+0430", "U+0440", "U+044C", "U+0435", "U+0440",
     "U+0430"
   >>,
   <<
     "U+043E", "U+0442", "U+043D", "U+043E", "U+0448", "U+0435",
     "U+043D", "U+0438", "U+044F"
   >>,
   <<"U+0441", "U+0435", "U+043C", "U+044C", "U+044F">>,
   <<"U+0434", "U+0435", "U+043D", "U+044C", "U+0433", "U+0438">>,
   <<
     "U+0437", "U+0434", "U+043E", "U+0440", "U+043E", "U+0432",
     "U+044C", "U+0435"
   >>}

LowKeywords ==
  {<<"U+043F", "U+0440", "U+0438", "U+0432", "U+0435", "U+0442">>,
   <<
     "U+0441", "U+043F", "U+0430", "U+0441", "U+0438", "U+0431",
     "U+043E"
   >>,
   <<"U+0445", "U+043E", "U+0440", "U+043E", "U+0448", "U+043E">>,
   <<
     "U+043F", "U+043E", "U+043D", "U+044F", "U+0442", "U+043D",
     "U+043E"
   >>,
   <<"U+0434", "U+0430">>,
   <<"U+043D", "U+0435", "U+0442">>}

\* the text before '(.+)' of each of the eight key_patterns
KeyPatternHeads ==
  {<<
     "U+044F", " ", "U+0445", "U+043E", "U+0447", "U+0443",
     " "
   >>,
   <<
     "U+043C", "U+043E", "U+044F", " ", "U+0446", "U+0435",
     "U+043B", "U+044C", " "
   >>,
   <<
     "U+043C", "U+043E", "U+044F", " ", "U+043F", "U+0440",
     "U+043E", "U+0431", "U+043B", "U+0435", "U+043C", "U+0430",
     " "
   >>,
   <<
     "U+044F", " ", "U+0431", "U+043E", "U+044E", "U+0441",
     "U+044C", " "
   >>,
   <<
     "U+044F", " ", "U+043C", "U+0435", "U+0447", "U+0442",
     "U+0430", "U+044E", " "
   >>,
   <<
     "U+044F", " ", "U+0440", "U+0430", "U+0431", "U+043E",
     "U+0442", "U+0430", "U+044E", " "
   >>,
   <<
     "U+044F", " ", "U+0438", "U+0437", "U+0443", "U+0447",
     "U+0430", "U+044E", " "
   >>,
   <<
     "U+044F", " ", "U+043F", "U+043B", "U+0430", "U+043D",
     "U+0438", "U+0440", "U+0443", "U+044E", " "
   >>}

\* re.search(head + '(.+)', text): the head, then a character other than \n
SearchHead(text, head) ==
  \E i \in 1..(Len(text) - Len(head)) :
    /\ SubSeq(text, i, i + Len(head) - 1) = head
    /\ text[i + Len(head)] # "\n"

\* sum(1 for keyword in keywords if keyword in text_lower)
KeywordCount(text_lower, keywords) ==
  Cardinality({w \in keywords : Contains(text_lower, w)})

\* _calculate_importance, in 1/(16000 * total) points
Importance(text, position, total) ==
  LET text_lower == Lower(text)
      position_weight == (position + 1) * 3 * 1600
      keyword_weight ==
        (5 * KeywordCount(text_lower, HighKeywords)
         + 3 * KeywordCount(text_lower, MediumKeywords)
         + KeywordCount(text_lower, LowKeywords)) * 1600 * total
      length_weight == Min(Len(text), 200) * 2 * 8 * total
      pattern_matches ==
        Cardinality({h \in KeyPatternHeads : SearchHead(text_lower, h)})
      pattern_weight == pattern_matches * 3 * 200 * total
  IN Min(position_weight + keyword_weight + length_weight + pattern_weight,
         16000 * total)

\* _prioritize_messages: the positions of the messages, most important first;
\* sorted() keeps the order of arrival among equally important messages
Prioritized(messages) ==
  LET n == Len(messages)
      imp == [i \in 1..n |-> Importance(messages[i], i - 1, n)]
      Before(j, i) == imp[j] > imp[i] \/ (imp[j] = imp[i] /\ j < i)
      rank == [i \in 1..n |-> Cardinality({j \in 1..n : Before(j, i)})]
  IN [k \in 1..n |-> messages[CHOOSE i \in 1..n : rank[i] = k - 1]]

\* _count_tokens
CompressorTokens(text) == Len(text) \div 4

RECURSIVE SplitWords(_)
\* text.split()
SplitWords(text) ==
  IF text = <<>> THEN <<>>
  ELSE IF IsSpace(text[1]) THEN SplitWords(Tail(text))
  ELSE LET ends == {i \in 1..Len(text) : IsSpace(text[i])}
           stop == IF ends = {} THEN Len(text) + 1
                   ELSE CHOOSE i \in ends : \A j \in ends : i <= j
       IN <<SubSeq(text, 1, stop - 1)>>
            \o SplitWords(SubSeq(text, stop, Len(text)))

RECURSIVE TruncateWords(_, _, _, _)
\* the loop of _truncate_text over the words
TruncateWords(words, truncated_words, current_length, max_chars) ==
  IF words = <<>> THEN truncated_words
  ELSE IF current_length + Len(words[1]) + 1 <= max_chars
  THEN TruncateWords(Tail(words), Append(truncated_words, words[1]),
                     current_length + Len(words[1]) + 1, max_chars)
  ELSE truncated_words

\* _truncate_text
TruncateText(text, max_tokens) ==
  IF Len(text) <= max_tokens * 4 THEN text
  ELSE Join(TruncateWords(SplitWords(text), <<>>, 0, max_tokens * 4), <<" ">>)

RECURSIVE SelectMessages(_, _, _, _)
\* _select_messages: the loop from the first message of prioritized on
SelectMessages(prioritized, selected, current_tokens, max_tokens) ==
  IF prioritized = <<>> THEN selected
  ELSE LET text == prioritized[1]
           message_tokens == CompressorTokens(text)
           remaining_tokens == max_tokens - current_tokens
       IN IF current_tokens + message_tokens <= max_tokens
          THEN SelectMessages(Tail(prioritized), Append(selected, text),
                              current_tokens + message_tokens, max_tokens)
          ELSE IF remaining_tokens > 50
          THEN Append(selected, TruncateText(text, remaining_tokens)
                                  \o <<".", ".", ".">>)
          ELSE selected

\* '[Сжатый контекст из', the head of the header line
SzhatyiKontekst ==
  <<
    "[", "U+0421", "U+0436", "U+0430", "U+0442", "U+044B",
    "U+0439", " ", "U+043A", "U+043E", "U+043D", "U+0442",
    "U+0435", "U+043A", "U+0441", "U+0442", " ", "U+0438",
    "U+0437"
  >>

\* 'Контекст недоступен'
KontekstNedostupen ==
  <<
    "U+041A", "U+043E", "U+043D", "U+0442", "U+0435", "U+043A",
    "U+0441", "U+0442", " ", "U+043D", "U+0435", "U+0434",
    "U+043E", "U+0441", "U+0442", "U+0443", "U+043F", "U+0435",
    "U+043D"
  >>

\* 'Сообщение'
Soobshchenie ==
  <<
    "U+0421", "U+043E", "U+043E", "U+0431", "U+0449", "U+0435",
    "U+043D", "U+0438", "U+0435"
  >>

\* '[Сжатый контекст из {n} сообщений]'
CompressedHeader(n) ==
  SzhatyiKontekst \o <<" ">> \o IntToStr(n) \o <<
      " ", "U+0441", "U+043E", "U+043E", "U+0431", "U+0449",
      "U+0435", "U+043D", "U+0438", "U+0439", "]"
    >>

\* _create_compressed_context
CreateCompressedContext(selected, all_messages) ==
  LET lines == [i \in 1..Len(selected) |->
                  Soobshchenie \o <<":", " ">> \o selected[i]]
  IN IF selected = <<>> THEN KontekstNedostupen
     ELSE IF Len(selected) < Len(all_messages)
     THEN Join(<<CompressedHeader(Len(all_messages)), <<>>>> \o lines, <<"\n">>)
     ELSE Join(lines, <<"\n">>)

\* _format_messages
FormatMessages(messages) ==
  Join([i \in 1..Len(messages) |->
          Soobshchenie \o <<" ">> \o IntToStr(i) \o <<":", " ">> \o messages[i]],
       <<"\n">>)

RECURSIVE SumTokens(_)
\* sum(self._count_tokens(msg.text) for msg in analyzed_messages)
SumTokens(messages) ==
  IF messages = <<>> THEN 0
  ELSE CompressorTokens(messages[1]) + SumTokens(Tail(messages))

\* compress_conversation
CompressConversation(messages, max_tokens) ==
  IF messages = <<>> THEN <<>>
  ELSE IF SumTokens(messages) <= max_tokens THEN FormatMessages(messages)
  ELSE CreateCompressedContext(
         SelectMessages(Prioritized(messages), <<>>, 0, max_tokens), messages)

\* n words of k letters, separated by single blanks
WordsOf(n, k) ==
  [i \in 1..(n * (k + 1) - 1) |-> IF i % (k + 1) = 0 THEN " " ELSE "w"]

\* the conversations compress_conversation is called with: the turns 'да',
\* 'я хочу цель' followed by 12 words, 204 letters, and 30 words of 9 letters
Da == <<"U+0434", "U+0430">>
Wish == <<
    "U+044F", " ", "U+0445", "U+043E", "U+0447", "U+0443",
    " ", "U+0446", "U+0435", "U+043B", "U+044C"
  >> \o <<" ">> \o WordsOf(12, 9)
Conversations == {<<>>, <<Da>>, <<Fill("x", 204)>>, <<Da, Da, Da>>,
                  <<Fill("x", 204), Da>>, <<WordsOf(30, 9)>>,
                  <<Wish, Fill("x", 204), WordsOf(30, 9)>>,
                  <<WordsOf(30, 9), WordsOf(30, 9), Wish>>}
Budgets == {0 - 1, 0, 51, 60, 100, 130, 200}

\* the results of compress_conversation on these inputs, computed once
Compressions ==
  [m \in Conversations, b \in Budgets |->
     [fn |-> "compress_conversation", messages |-> m, max_tokens |-> b,
      ret |-> CompressConversation(m, b)]]

\* a call of compress_conversation
Compress(messages, max_tokens) ==
  /\ pc = "Idle"
  /\ calc' = Compressions[messages, max_tokens]
  /\ UNCHANGED usage_stats
  /\ UNCHANGED monitorVars
  /\ UNCHANGED clientVars
  /\ UNCHANGED <<cacheVars, bot, security>>

DoCompress == \E m \in Conversations, b \in Budgets : Compress(m, b)

\* ------------------------------------------------------------- OpenAIClient
\* The three apology texts of openai_client.py, written with one-letter words:
\* the initial tells them apart, the number of words and the final full stop
\* are those of the Russian sentences (8, 9 and 8 words).
RateLimitApology ==
  <<"R">> \o Rep(<<" ", "w">>, 2) \o <<" ", "w", ".">>
          \o Rep(<<" ", "w">>, 3) \o <<" ", "w", ".">>
TimeoutApology ==
  <<"T">> \o Rep(<<" ", "w">>, 4) \o <<" ", "w", ".">>
          \o Rep(<<" ", "w">>, 2) \o <<" ", "w", ".">>
ErrorApology ==
  <<"E">> \o Rep(<<" ", "w">>, 4) \o <<" ", "w", ".">>
          \o <<" ", "w">> \o <<" ", "w", ".">>

\* bool(x) of an Optional[str]
Truthy(x) == x # None /\ x # <<>>

\* what _call_openai returns for an outcome of chat.completions.create
CallOpenAI(outcome, content) ==
  CASE outcome = "ok" -> Strip(content)
    [] outcome = "rate_limit" -> RateLimitApology
    [] outcome = "timeout" -> TimeoutApology

\* a continuation whose failure is answered with the apology text
ContinueResponseApologises(outcome, content) ==
  IF outcome = "ok" THEN Strip(content) ELSE ErrorApology

\* what _continue_response returns
ContinueResponse(outcome, content) ==
  IF outcome = "ok" THEN Strip(content) ELSE <<>>

\* the AIResponse of the except branch of get_response
ErrorResult == [returned |-> TRUE, raised |-> FALSE, content |-> ErrorApology,
                cached |-> FALSE, truncated |-> FALSE, zero_usage |-> TRUE]

\* an exception leaves get_response
RaisedResult == [returned |-> TRUE, raised |-> TRUE, content |-> None,
                 cached |-> FALSE, truncated |-> FALSE, zero_usage |-> FALSE]

\* get_response is called: start_time, context = context or {}
Start(prompt, user_id, context, prompt_type, use_cache, force_fresh) ==
  /\ pc = "Idle"
  /\ stats.total_requests < MaxRequests
  /\ stats.evictions < MaxEvictions
  /\ monitor < MaxTracked
  /\ req' = [prompt |-> prompt, user_id |-> user_id, context |-> context,
             prompt_type |-> prompt_type, use_cache |-> use_cache,
             force_fresh |-> force_fresh]
  /\ run' = NoRun
  /\ result' = NoResult
  /\ pc' = "CacheCheck"
  /\ UNCHANGED <<config, monitor, truncated_responses>>
  /\ UNCHANGED cacheVars
  /\ UNCHANGED <<monitorVars, libVars, bot, security>>

\* lines 69-83: the cache lookup and the return on a hit
CacheCheck ==
  /\ pc = "CacheCheck"
  /\ IF req.use_cache /\ ~req.force_fresh
     THEN LET cached_response == GetRet(cache, req.prompt, req.user_id,
                                        req.context, req.prompt_type, now)
              key == GenerateCacheKey(req.prompt, req.user_id, req.context)
          IN /\ cache' = GetCache(cache, req.prompt, req.user_id, req.context,
                                  req.prompt_type, now)
             /\ stats' = GetStats(stats, cached_response)
             /\ last' = LastOp("get",
                               [prompt |-> req.prompt, user_id |-> req.user_id,
                                context |-> req.context,
                                response_type |-> req.prompt_type,
                                response |-> None],
                               cached_response, <<>>,
                               AfterPut(key, req.prompt_type))
             /\ putKind' = Restrict(putKind, KeysOf(cache'))
             /\ useOrder' = IF cached_response = None
                            THEN Kept(useOrder, cache')
                            ELSE Touched(useOrder, cache', key)
             /\ IF Truthy(cached_response)
                THEN /\ result' = [returned |-> TRUE, raised |-> FALSE,
                                   content |-> cached_response,
                                   cached |-> TRUE, truncated |-> FALSE,
                                   zero_usage |-> TRUE]
                     /\ pc' = "Returned"
                ELSE /\ result' = result
                     /\ pc' = "Budgeting"
     ELSE /\ pc' = "Budgeting"
          /\ UNCHANGED <<cache, stats, last, putKind, useOrder, result>>
  /\ UNCHANGED <<max_size, now, config, req, run, monitor, truncated_responses>>
  /\ UNCHANGED <<monitorVars, libVars, bot, security>>

\* lines 85-94: _calculate_available_tokens, get_optimal_prompt and
\* optimize_prompt, all before the try.  BotConfig (src/bot/config.py) has no
\* MAX_TOKENS, MIN_TOKENS or RESPONSE_TOKENS attribute: get_optimal_token_limit
\* (token_monitor.py:172-174) or optimize_prompt (token_manager.py:101) raises
\* AttributeError.
Budgeting ==
  /\ pc = "Budgeting"
  /\ run' = [run EXCEPT !.planned = TRUE]
  /\ IF config = "BotConfig"
     THEN /\ result' = RaisedResult
          /\ pc' = "Returned"
     ELSE /\ result' = result
          /\ pc' = "Calling"
  /\ UNCHANGED <<config, req, monitor, truncated_responses>>
  /\ UNCHANGED cacheVars
  /\ UNCHANGED <<monitorVars, libVars, bot, security>>

\* lines 98-101: _call_openai and the truncation check
Calling(outcome, content) ==
  /\ pc = "Calling"
  /\ IF outcome = "error"
     THEN /\ run' = [run EXCEPT !.call = outcome, !.llm_calls = @ + 1]
          /\ result' = ErrorResult
          /\ pc' = "Returned"
     ELSE LET response == CallOpenAI(outcome, content)
              is_truncated == IsResponseTruncated(response)
          IN /\ run' = [run EXCEPT !.call = outcome, !.llm_calls = @ + 1,
                                   !.first = response, !.response = response,
                                   !.is_truncated = is_truncated]
             /\ result' = result
             /\ pc' = IF is_truncated THEN "Continuing" ELSE "Finishing"
  /\ UNCHANGED <<config, req, monitor, truncated_responses>>
  /\ UNCHANGED cacheVars
  /\ UNCHANGED <<monitorVars, libVars, bot, security>>

\* a client that calls the model anew after the continuation
ContinuingRetries(outcome, content) ==
  /\ pc = "Continuing"
  /\ run' = [run EXCEPT !.cont = outcome]
  /\ pc' = "Calling"
  /\ UNCHANGED <<config, req, result, monitor, truncated_responses>>
  /\ UNCHANGED cacheVars
  /\ UNCHANGED <<monitorVars, libVars, bot, security>>

\* lines 104-107: _continue_response and the concatenation
Continuing(outcome, content) ==
  /\ pc = "Continuing"
  /\ LET continuation == ContinueResponse(outcome, content)
     IN run' = [run EXCEPT !.cont = outcome, !.llm_calls = @ + 1,
                           !.continuation = continuation,
                           !.response = @ \o <<"\n", "\n">> \o continuation]
  /\ pc' = "Finishing"
  /\ UNCHANGED <<config, req, result, monitor, truncated_responses>>
  /\ UNCHANGED cacheVars
  /\ UNCHANGED <<monitorVars, libVars, bot, security>>

\* lines 109-146: split, track_request, the cache write and the return
Finishing ==
  /\ pc = "Finishing"
  /\ LET response_parts == SplitLongResponse(run.response, MAX_MESSAGE_LENGTH)
         final_response == IF response_parts # <<>> THEN response_parts[1]
                           ELSE run.response
         key == GenerateCacheKey(req.prompt, req.user_id, req.context)
         writes == req.use_cache /\ ~run.is_truncated
         evicts == key \notin KeysOf(cache) /\ Len(cache) + 1 > max_size
         tracked == Tracked(user_patterns, req.user_id, Len(final_response),
                            run.is_truncated, NoSatisfaction, clock)
         ran == CheckRuns(tracked, req.user_id, clock)
     IN /\ monitor' = monitor + 1
        /\ truncated_responses' = truncated_responses
                                   + (IF run.is_truncated THEN 1 ELSE 0)
        /\ user_patterns' = IF ran
                            THEN AutoOptimized(tracked, req.user_id, clock)
                            ELSE tracked
        /\ runs' = IF ran
                   THEN RunAt(runs, tracked, req.user_id, clock,
                              "track_request")
                   ELSE runs
        /\ created' = IF req.user_id \in DOMAIN user_patterns THEN created
                      ELSE With(created, req.user_id, clock)
        /\ IF writes
           THEN /\ cache' = PutCache(cache, max_size, req.prompt,
                                     final_response, req.user_id, req.context,
                                     "absent", now)
                /\ stats' = IF evicts
                            THEN [stats EXCEPT !.evictions = @ + 1] ELSE stats
                /\ last' = LastOp("put",
                                   [prompt |-> req.prompt,
                                    user_id |-> req.user_id,
                                    context |-> req.context,
                                    response_type |-> req.prompt_type,
                                    response |-> final_response],
                                   key,
                                   PutEvicted(cache, max_size, req.prompt,
                                              final_response, req.user_id,
                                              req.context, "absent", now),
                                   FALSE)
                /\ putKind' = Restrict([k \in (DOMAIN putKind) \cup {key} |->
                                          IF k = key THEN req.prompt_type
                                          ELSE putKind[k]],
                                       KeysOf(cache'))
                /\ useOrder' = IF key \in KeysOf(cache)
                               THEN Kept(useOrder, cache')
                               ELSE Touched(useOrder, cache', key)
           ELSE UNCHANGED <<cache, stats, last, putKind, useOrder>>
        /\ run' = [run EXCEPT !.tracked = TRUE, !.stored = writes]
        /\ result' = [returned |-> TRUE, raised |-> FALSE,
                      content |-> final_response, cached |-> FALSE,
                      truncated |-> run.is_truncated, zero_usage |-> FALSE]
  /\ pc' = "Returned"
  /\ UNCHANGED <<max_size, now, config, req, clock, libVars, bot, security>>

\* the caller has the AIResponse (or the exception); the locals are gone
Returned ==
  /\ pc = "Returned"
  /\ pc' = "Idle"
  /\ req' = NoReq
  /\ run' = NoRun
  /\ result' = NoResult
  /\ UNCHANGED <<config, monitor, truncated_responses>>
  /\ UNCHANGED cacheVars
  /\ UNCHANGED <<monitorVars, libVars, bot, security>>

DoStart ==
  \E tr \in Requests, k \in Kinds, uc \in BOOLEAN, ff \in BOOLEAN :
    Start(tr[1], tr[2], tr[3], k, uc, ff)

DoCalling ==
  \/ \E content \in Completions : Calling("ok", content)
  \/ \E outcome \in {"rate_limit", "timeout", "error"} : Calling(outcome, <<>>)

DoContinuing ==
  \/ \E content \in Continuations : Continuing("ok", content)
  \/ Continuing("error", <<>>)

\* ------------------------------------------------- BotConversationHandler
\* The application of src/core/bot.py takes the updates of all users from one
\* queue and runs handle_message on one event loop.  A handler runs without
\* interruption from one await that suspends it to the next; between two such
\* points no other coroutine runs.  The users modelled here pass the checks of
\* the security manager, are not in a structured consultation and not in
\* follow-up mode, and their estimated tokens are within check_token_limit.

\* the texts the users send: a statement, a direct question, a request to
\* stop, and the short command "1" of the help text
Statement == <<"x">>
Question == <<"x", "?">>
StopIt == <<"U+0441", "U+0442", "U+043E", "U+043F">>
BotTexts == {Statement, Question, StopIt, <<"1">>}

\* cancellation_keywords of _analyze_speech_patterns
cancellation_keywords ==
  {<<"U+043D", "U+0435", " ", "U+0445", "U+043E", "U+0447", "U+0443">>,
   <<"U+0445", "U+0432", "U+0430", "U+0442", "U+0438", "U+0442">>,
   <<"U+0434", "U+043E", "U+0441", "U+0442", "U+0430", "U+0442", "U+043E",
     "U+0447", "U+043D", "U+043E">>,
   <<"U+0441", "U+0442", "U+043E", "U+043F">>,
   <<"U+043F", "U+0440", "U+0435", "U+043A", "U+0440", "U+0430", "U+0442",
     "U+0438">>,
   <<"U+043E", "U+0441", "U+0442", "U+0430", "U+043D", "U+043E", "U+0432",
     "U+0438", "U+0441", "U+044C">>,
   <<"U+043D", "U+0435", " ", "U+0431", "U+0443", "U+0434", "U+0443">>,
   <<"U+043D", "U+0435", " ", "U+0431", "U+0443", "U+0434", "U+0443", " ",
     "U+0433", "U+043E", "U+0432", "U+043E", "U+0440", "U+0438", "U+0442",
     "U+044C">>,
   <<"U+043D", "U+0435", " ", "U+0445", "U+043E", "U+0447", "U+0443", " ",
     "U+0433", "U+043E", "U+0432", "U+043E", "U+0440", "U+0438", "U+0442",
     "U+044C">>,
   <<"U+0445", "U+0432", "U+0430", "U+0442", "U+0438", "U+0442", " ",
     "U+0433", "U+043E", "U+0432", "U+043E", "U+0440", "U+0438", "U+0442",
     "U+044C">>}

\* topic_change_keywords of _analyze_speech_patterns
topic_change_keywords ==
  {<<"U+0434", "U+0440", "U+0443", "U+0433", "U+043E", "U+0435">>,
   <<"U+0434", "U+0440", "U+0443", "U+0433", "U+0430", "U+044F", " ",
     "U+0442", "U+0435", "U+043C", "U+0430">>,
   <<"U+0434", "U+0430", "U+0432", "U+0430", "U+0439", " ", "U+043E">>,
   <<"U+043F", "U+043E", "U+0433", "U+043E", "U+0432", "U+043E", "U+0440",
     "U+0438", "U+043C", " ", "U+043E">>,
   <<"U+0445", "U+043E", "U+0447", "U+0443", " ", "U+043F", "U+043E",
     "U+0433", "U+043E", "U+0432", "U+043E", "U+0440", "U+0438", "U+0442",
     "U+044C", " ", "U+043E">>,
   <<"U+0441", "U+043C", "U+0435", "U+043D", "U+0438", " ", "U+0442",
     "U+0435", "U+043C", "U+0443">>,
   <<"U+043D", "U+0435", " ", "U+043E", "U+0431", " ", "U+044D", "U+0442",
     "U+043E", "U+043C">>}

\* self_intro_keywords of _analyze_speech_patterns
self_intro_keywords ==
  {<<"U+0440", "U+0430", "U+0441", "U+0441", "U+043A", "U+0430", "U+0436",
     "U+0438", " ", "U+043E", " ", "U+0441", "U+0435", "U+0431", "U+0435">>,
   <<"U+0440", "U+0430", "U+0441", "U+0441", "U+043A", "U+0430", "U+0436",
     "U+0438", " ", "U+043E", " ", "U+0442", "U+0435", "U+0431", "U+0435">>,
   <<"U+043A", "U+0442", "U+043E", " ", "U+0442", "U+044B">>,
   <<"U+0447", "U+0442", "U+043E", " ", "U+0442", "U+044B">>,
   <<"U+043A", "U+0430", "U+043A", " ", "U+0442", "U+044B", " ", "U+0440",
     "U+0430", "U+0431", "U+043E", "U+0442", "U+0430", "U+0435", "U+0448",
     "U+044C">>,
   <<"U+0442", "U+0432", "U+043E", "U+044F", " ", "U+0438", "U+0441",
     "U+0442", "U+043E", "U+0440", "U+0438", "U+044F">>,
   <<"U+0442", "U+0432", "U+043E", "U+044F", " ", "U+0440", "U+0430",
     "U+0431", "U+043E", "U+0442", "U+0430">>,
   <<"U+0447", "U+0442", "U+043E", " ", "U+0442", "U+044B", " ", "U+0443",
     "U+043C", "U+0435", "U+0435", "U+0448", "U+044C">>}

\* direct_question_indicators of _is_direct_question
direct_question_indicators ==
  {<<"U+0447", "U+0442", "U+043E", " ", "U+0438", "U+0437", " ", "U+0441",
     "U+0435", "U+0431", "U+044F", " ", "U+043F", "U+0440", "U+0435",
     "U+0434", "U+0441", "U+0442", "U+0430", "U+0432", "U+043B", "U+044F",
     "U+0435", "U+0442">>,
   <<"U+0447", "U+0442", "U+043E", " ", "U+0432", "U+0445", "U+043E",
     "U+0434", "U+0438", "U+0442", " ", "U+0432">>,
   <<"U+043A", "U+0430", "U+043A", "U+0438", "U+0435", " ", "U+043A",
     "U+0443", "U+0440", "U+0441", "U+044B">>,
   <<"U+0440", "U+0430", "U+0441", "U+0441", "U+043A", "U+0430", "U+0436",
     "U+0438", " ", "U+043E">>,
   <<"U+043E", "U+0431", "U+044A", "U+044F", "U+0441", "U+043D", "U+0438">>,
   <<"U+0447", "U+0442", "U+043E", " ", "U+0442", "U+0430", "U+043A",
     "U+043E", "U+0435">>,
   <<"U+043A", "U+0430", "U+043A", " ", "U+0440", "U+0430", "U+0431",
     "U+043E", "U+0442", "U+0430", "U+0435", "U+0442">>,
   <<"U+0432", " ", "U+0447", "U+0435", "U+043C", " ", "U+0440", "U+0430",
     "U+0437", "U+043D", "U+0438", "U+0446", "U+0430">>,
   <<"U+043A", "U+0430", "U+043A", " ", "U+0432", "U+044B", "U+0431",
     "U+0440", "U+0430", "U+0442", "U+044C">>,
   <<"U+0433", "U+0434", "U+0435", " ", "U+043D", "U+0430", "U+0439",
     "U+0442", "U+0438">>,
   <<"U+0441", "U+043A", "U+043E", "U+043B", "U+044C", "U+043A", "U+043E",
     " ", "U+0441", "U+0442", "U+043E", "U+0438", "U+0442">>,
   <<"U+043A", "U+0430", "U+043A", " ", "U+043D", "U+0430", "U+0447",
     "U+0430", "U+0442", "U+044C">>,
   <<"U+0441", " ", "U+0447", "U+0435", "U+0433", "U+043E", " ", "U+043D",
     "U+0430", "U+0447", "U+0430", "U+0442", "U+044C">>,
   <<"U+0447", "U+0442", "U+043E", " ", "U+043D", "U+0443", "U+0436",
     "U+043D", "U+043E", " ", "U+0437", "U+043D", "U+0430", "U+0442",
     "U+044C">>,
   <<"U+043A", "U+0430", "U+043A", "U+0438", "U+0435", " ", "U+043D",
     "U+0430", "U+0432", "U+044B", "U+043A", "U+0438">>,
   <<"U+043A", "U+0430", "U+043A", "U+0438", "U+0435", " ", "U+0442",
     "U+0440", "U+0435", "U+0431", "U+043E", "U+0432", "U+0430", "U+043D",
     "U+0438", "U+044F">>}

\* any(keyword in text_lower for keyword in keywords)
AnyIn(keywords, text) == \E k \in keywords : Contains(Lower(text), k)

\* _is_direct_question
IsDirectQuestion(text) ==
  \/ AnyIn(direct_question_indicators, text)
  \/ EndsWith(Strip(text), <<"?">>)

\* h[-n:]
LastTurns(h, n) == IF Len(h) > n THEN SubSeq(h, Len(h) - n + 1, Len(h)) ELSE h

\* a history that keeps its oldest turns
CappedOldest(h) ==
  IF Len(h) > HistoryLength THEN SubSeq(h, 1, HistoryLength) ELSE h

\* if len(history) > 20: history = history[-20:]
Capped(h) == IF Len(h) > HistoryLength THEN LastTurns(h, HistoryLength) ELSE h

\* an application that starts the handler of the next update at once
DispatchableAtOnce(tasks) == TRUE

\* ApplicationBuilder().token(...).build(): concurrent_updates is left at its
\* default, and the handler is registered blocking, so the application takes
\* the next update from the queue when the handler of the last has returned
Dispatchable(tasks) == tasks = <<>>

\* self.client.chat.completions.create(...) of the synchronous openai.OpenAI
\* client, called without await inside the coroutine: the event loop runs
\* nothing else until the call returns
Blocked(tasks) == \E i \in 1..Len(tasks) : tasks[i].at = "llm"

\* history: what happened to which update, in order
Event(e, task) == [e |-> e, id |-> task.id, user_id |-> task.user_id]

Suspended(b, task, at) ==
  [b EXCEPT !.tasks = Append(@, [task EXCEPT !.at = at])]

\* _get_ai_response up to the point where the handler stops running: the
\* context is built from the stored history, then get_direct_response calls
\* _call_openai with an empty context.  get_optimal_token_limit(user_id, 1)
\* reads config.MAX_TOKENS, which BotConfig does not have: the call raises
\* before the request is sent and handle_message answers with its apology.
GetAIResponse(b, cfg, task) ==
  LET history == IF task.user_id \in DOMAIN b.conversation_history
                 THEN b.conversation_history[task.user_id] ELSE <<>>
      built == [b EXCEPT !.events =
                  Append(@, [e |-> "context", id |-> task.id,
                             user_id |-> task.user_id,
                             turns |-> LastTurns(history, ContextTurns)])]
  IN IF cfg = "BotConfig"
     THEN Suspended(built, task, "reply")
     ELSE Suspended(built, task, "llm")

\* handle_message from its first line to the first await that suspends it
Started(b, cfg, update) ==
  LET user_id == update.user_id
      text == Strip(update.text)
      task == [id |-> update.id, user_id |-> user_id, text |-> text,
               at |-> "start", path |-> "none"]
  IN IF text = <<>> \/ text = <<"1">>
     THEN Suspended(b, task, "reply")
     ELSE
       LET history == IF user_id \in DOMAIN b.conversation_history
                      THEN b.conversation_history
                      ELSE With(b.conversation_history, user_id, <<>>)
           tracker == IF user_id \in DOMAIN b.free_consultation_tracker
                      THEN b.free_consultation_tracker
                      ELSE With(b.free_consultation_tracker, user_id, 0)
           known == [b EXCEPT !.conversation_history = history,
                              !.free_consultation_tracker = tracker]
           added == [known EXCEPT
                       !.conversation_history[user_id] =
                          Capped(Append(@, text)),
                       !.appended[user_id] = Append(@, text),
                       !.events = Append(@, Event("append", task))]
       IN IF tracker[user_id] >= FreeConsultations
          THEN Suspended(known, task, "reply")
          ELSE IF AnyIn(cancellation_keywords, text)
          THEN Suspended(added, task, "cancel")
          ELSE IF \/ AnyIn(topic_change_keywords, text)
                  \/ AnyIn(self_intro_keywords, text)
          THEN Suspended(added, task, "reply")
          ELSE IF IsDirectQuestion(text)
          THEN GetAIResponse(added, cfg, [task EXCEPT !.path = "direct"])
          ELSE Suspended(added, [task EXCEPT !.path = "normal"], "thinking")

\* a user sends a message: it waits in the update queue
Arrive(user_id, text) ==
  /\ bot.arrived < MaxUpdates
  /\ UNCHANGED security
  /\ bot' = [bot EXCEPT
               !.arrived = @ + 1,
               !.update_queue = Append(@, [id |-> bot.arrived + 1,
                                            user_id |-> user_id,
                                            text |-> text])]
  /\ UNCHANGED <<cacheVars, clientVars, monitorVars, libVars>>

DoArrive == \E u \in Users, text \in BotTexts : Arrive(u, text)

\* the application takes the next update and runs handle_message on it
HandleMessage ==
  /\ bot.update_queue # <<>>
  /\ Dispatchable(bot.tasks)
  /\ ~Blocked(bot.tasks)
  /\ UNCHANGED security
  /\ bot' = Started([bot EXCEPT !.update_queue = Tail(@)], config,
                    Head(bot.update_queue))
  /\ UNCHANGED <<cacheVars, clientVars, monitorVars, libVars>>

Without(tasks, i) == SubSeq(tasks, 1, i - 1) \o SubSeq(tasks, i + 1, Len(tasks))

Drop(f, k) == [x \in (DOMAIN f) \ {k} |-> f[x]]

\* the message the handler was sending is delivered and the handler runs on
\* to its next await, or returns.  A task at "answer" or at "direct" is in
\* _send_response with the answer of the model, on the normal path and on
\* the path of a direct question.
Resumed(b, cfg, i) ==
  LET task == b.tasks[i]
      user_id == task.user_id
      rest == [b EXCEPT !.tasks = Without(@, i),
                        !.events = Append(@, [e |-> "reply", id |-> task.id,
                                              user_id |-> user_id,
                                              at |-> task.at])]
  IN CASE task.at = "thinking" -> GetAIResponse(rest, cfg, task)
       [] task.at = "cancel" ->
            [rest EXCEPT
               !.conversation_history = Drop(@, user_id),
               !.free_consultation_tracker = Drop(@, user_id),
               !.cleared[user_id] = Len(b.appended[user_id])]
       [] task.at = "answer" ->
            IF user_id \in DOMAIN b.free_consultation_tracker
            THEN Suspended([rest EXCEPT
                              !.free_consultation_tracker[user_id] = @ + 1],
                           task, "status")
            ELSE Suspended(rest, task, "reply")
       [] OTHER -> rest

\* _handle_cancellation also calls ai_client.clear_user_data, which finds
\* nothing of the user: get_direct_response neither caches nor tracks
Resume(i) ==
  /\ i \in 1..Len(bot.tasks)
  /\ bot.tasks[i].at # "llm"
  /\ ~Blocked(bot.tasks)
  /\ UNCHANGED security
  /\ bot' = Resumed(bot, config, i)
  /\ UNCHANGED <<cacheVars, clientVars, monitorVars, libVars>>

DoResume == \E i \in 1..MaxUpdates : Resume(i)

\* the chat completion returns: with a text (also the apology for a rate
\* limit or a timeout), or with an exception that handle_message catches.
\* The handler runs on to the await that sends its answer.
LLMReturns(i, outcome) ==
  /\ i \in 1..Len(bot.tasks)
  /\ bot.tasks[i].at = "llm"
  /\ UNCHANGED security
  /\ bot' = [bot EXCEPT
               !.tasks[i].at =
                  IF outcome = "ok"
                  THEN IF bot.tasks[i].path = "normal" THEN "answer"
                       ELSE "direct"
                  ELSE "reply"]
  /\ UNCHANGED <<cacheVars, clientVars, monitorVars, libVars>>

DoLLMReturns ==
  \E i \in 1..MaxUpdates, outcome \in {"ok", "error"} : LLMReturns(i, outcome)

\* the turn number i of a user who has only asked direct questions
SeedTurn(i) == <<"q">> \o IntToStr(i) \o <<"?">>

\* the handler after n direct questions of user 1, all answered
SeededBot(n) ==
  [NewBot EXCEPT
     !.conversation_history =
        IF n > 0 THEN With(<<>>, 1, Capped([i \in 1..n |-> SeedTurn(i)]))
        ELSE <<>>,
     !.free_consultation_tracker = IF n > 0 THEN With(<<>>, 1, 0) ELSE <<>>,
     !.appended[1] = [i \in 1..n |-> SeedTurn(i)]]

\* handle_message, line 96: the words that cancel a structured consultation
consultation_cancel_words ==
  {<<"U+043E", "U+0442", "U+043C", "U+0435", "U+043D", "U+0430">>,
   <<"U+043E", "U+0442", "U+043C", "U+0435", "U+043D", "U+0438", "U+0442",
     "U+044C">>,
   <<"c", "a", "n", "c", "e", "l">>,
   <<"U+0441", "U+0442", "U+043E", "U+043F">>,
   <<"U+0445", "U+0432", "U+0430", "U+0442", "U+0438", "U+0442">>}

\* handle_message, line 109: the words that go back one question
consultation_back_words ==
  {<<"U+043D", "U+0430", "U+0437", "U+0430", "U+0434">>,
   <<"b", "a", "c", "k">>,
   <<"U+043F", "U+0440", "U+0435", "U+0434", "U+044B", "U+0434", "U+0443",
     "U+0449", "U+0438", "U+0439">>}

\* the answer of one line, another one, and an answer that is too long
ShortAnswer == <<"a", "b", "c">>
OtherAnswer == <<"a", "b", "d">>
LongAnswer == Fill("a", MaxAnswerLength + 1)

ConsultationTexts ==
  {<<"2">>, ShortAnswer, OtherAnswer, LongAnswer, <<"b", "a", "c", "k">>,
   <<"c", "a", "n", "c", "e", "l">>}

\* _start_structured_consultation: user_data afterwards
StartedConsultation ==
  [consultation_type |-> "structured", current_question |-> 0,
   consultation_answers |-> <<>>,
   consultation_questions |-> ConsultationQuestions]

\* _ask_consultation_question: with every question asked it calls
\* _analyze_consultation_answers, which clears user_data whether the model
\* call succeeds or not; otherwise it sends the question
AskConsultationQuestion(d) ==
  IF d.current_question >= d.consultation_questions
  THEN [data |-> NoUserData, analysed |-> TRUE,
        answers |-> Len(d.consultation_answers)]
  ELSE [data |-> d, analysed |-> FALSE, answers |-> 0]

\* a step back that leaves the answers where they are
WentBackKeepingAnswers(d) ==
  [d EXCEPT !.current_question = @ - 1]

\* handle_message, lines 110-118: back to the previous question
WentBack(d) ==
  LET prev_question == d.current_question - 1
  IN [d EXCEPT
        !.current_question = prev_question,
        !.consultation_answers =
           IF Len(@) > prev_question THEN SubSeq(@, 1, prev_question)
           ELSE @]

\* _handle_consultation_answer, for a text that is not empty
AnswerHandled(d, text) ==
  IF Len(text) > MaxAnswerLength
  THEN [op |-> "too_long", asked |-> [data |-> d, analysed |-> FALSE,
                                       answers |-> 0]]
  ELSE [op |-> "answer",
        asked |-> AskConsultationQuestion(
                    [d EXCEPT !.consultation_answers = Append(@, text),
                              !.current_question = @ + 1])]

\* handle_message in a structured consultation, lines 93-127
StructuredMessage(d, text) ==
  LET text_lower == Strip(Lower(text))
  IN IF text_lower \in consultation_cancel_words
     THEN [op |-> "cancel", asked |-> [data |-> NoUserData,
                                        analysed |-> FALSE, answers |-> 0]]
     ELSE IF text_lower \in consultation_back_words
     THEN IF d.current_question > 0
          THEN [op |-> "back", asked |-> AskConsultationQuestion(WentBack(d))]
          ELSE [op |-> "first", asked |-> [data |-> d, analysed |-> FALSE,
                                            answers |-> 0]]
     ELSE AnswerHandled(d, text)

\* handle_message, lines 86-127, for the text '2' and for a user in a
\* structured consultation, the security checks passed.  The handler runs
\* from the dispatch of the update to its return before the next update is
\* taken (Dispatchable); outcome is that of the model call of the analysis.
ConsultationMessage(user_id, text, outcome) ==
  LET d == bot.user_data[user_id]
      text_stripped == Strip(text)
      r == IF text_stripped = <<"2">>
           THEN [op |-> "start",
                 asked |-> AskConsultationQuestion(StartedConsultation)]
           ELSE StructuredMessage(d, text_stripped)
  IN /\ bot.handled < MaxHandled
     /\ text_stripped = <<"2">> \/ d.consultation_type = "structured"
     /\ r.asked.analysed \/ outcome = "ok"
     /\ UNCHANGED security
     /\ bot' = [bot EXCEPT
                  !.user_data[user_id] = r.asked.data,
                  !.handled = @ + 1,
                  !.backs = IF r.op = "back" THEN @ + 1 ELSE @,
                  !.consultation =
                     [op |-> r.op, user_id |-> user_id,
                      analysed |-> r.asked.analysed,
                      answers |-> r.asked.answers,
                      outcome |-> IF r.asked.analysed THEN outcome
                                  ELSE "none"]]
     /\ UNCHANGED <<cacheVars, clientVars, monitorVars, libVars>>

DoConsultationMessage ==
  \E u \in Users, text \in ConsultationTexts, outcome \in {"ok", "error"} :
    ConsultationMessage(u, text, outcome)

\* ---------------------------------------------------------- SecurityManager
\* _log_security_alert
LogSecurityAlert(s, user_id, alert_type) ==
  LET alerts == Append(s.security_alerts,
                       [user_id |-> user_id, alert_type |-> alert_type,
                        timestamp |-> s.time])
  IN [s EXCEPT
        !.security_alerts =
           IF Len(alerts) > MaxAlerts
           THEN SubSeq(alerts, Len(alerts) - KeptAlerts + 1, Len(alerts))
           ELSE alerts,
        !.security_incidents = @ + 1]

RECURSIVE PopExpiredEarly(_, _)
\* a loop that also drops the request made exactly one window ago
PopExpiredEarly(user_queue, current_time) ==
  IF user_queue # <<>> /\ Head(user_queue) <= current_time - time_window
  THEN PopExpiredEarly(Tail(user_queue), current_time)
  ELSE user_queue

RECURSIVE PopExpired(_, _)
\* check_rate_limit, lines 66-68: the loop that drops the old requests
PopExpired(user_queue, current_time) ==
  IF user_queue # <<>> /\ Head(user_queue) < current_time - time_window
  THEN PopExpired(Tail(user_queue), current_time)
  ELSE user_queue

\* check_rate_limit: the manager afterwards
RateLimitChecked(s, user_id) ==
  LET user_queue == PopExpired(s.user_requests[user_id], s.time)
      t == [s EXCEPT !.user_requests[user_id] = user_queue,
                     !.calls = @ + 1]
  IN IF Len(user_queue) >= max_requests
     THEN [LogSecurityAlert(t, user_id, "rate_limit_exceeded") EXCEPT
             !.blocked_requests = @ + 1,
             !.call = [fn |-> "check_rate_limit", user_id |-> user_id,
                       ret |-> FALSE, reason |-> "limit", at |-> s.time]]
     ELSE [t EXCEPT
             !.user_requests[user_id] = Append(@, s.time),
             !.total_requests = @ + 1,
             !.granted[user_id] = Append(@, s.time),
             !.call = [fn |-> "check_rate_limit", user_id |-> user_id,
                       ret |-> TRUE, reason |-> "OK", at |-> s.time]]

\* check_user_behavior, lines 159-160: the alerts of the user of the last hour
RecentAlerts(s, user_id) ==
  SelectSeq(s.security_alerts,
            LAMBDA alert : /\ alert.user_id = user_id
                           /\ alert.timestamp > s.time - AlertWindow)

\* check_user_behavior: the manager afterwards
UserBehaviorChecked(s, user_id) ==
  LET t == [s EXCEPT !.calls = @ + 1]
  IN IF user_id \in s.blocked_users
     THEN [t EXCEPT
             !.call = [fn |-> "check_user_behavior", user_id |-> user_id,
                       ret |-> FALSE, reason |-> "blocked", at |-> s.time]]
     ELSE IF Len(RecentAlerts(s, user_id)) >= AlertThreshold
     THEN [LogSecurityAlert(t, user_id, "suspicious_behavior") EXCEPT
             !.call = [fn |-> "check_user_behavior", user_id |-> user_id,
                       ret |-> FALSE, reason |-> "suspicious",
                       at |-> s.time]]
     ELSE [t EXCEPT
             !.call = [fn |-> "check_user_behavior", user_id |-> user_id,
                       ret |-> TRUE, reason |-> "OK", at |-> s.time]]

\* everything but the SecurityManager
otherVars == <<cacheVars, clientVars, monitorVars, libVars, bot>>

\* SecurityManager.check_rate_limit
CheckRateLimit(user_id) ==
  /\ security.calls < MaxSecurityCalls
  /\ security' = RateLimitChecked(security, user_id)
  /\ UNCHANGED otherVars

\* SecurityManager.check_user_behavior
CheckUserBehavior(user_id) ==
  /\ security.calls < MaxSecurityCalls
  /\ security' = UserBehaviorChecked(security, user_id)
  /\ UNCHANGED otherVars

\* SecurityManager.block_user
BlockUser(user_id) ==
  /\ security.calls < MaxSecurityCalls
  /\ security' =
       [LogSecurityAlert([security EXCEPT !.blocked_users = @ \cup {user_id},
                                          !.calls = @ + 1],
                         user_id, "user_blocked") EXCEPT
          !.call = [fn |-> "block_user", user_id |-> user_id,
                    at |-> security.time]]
  /\ UNCHANGED otherVars

\* SecurityManager.unblock_user
UnblockUser(user_id) ==
  /\ security.calls < MaxSecurityCalls
  /\ security' = [security EXCEPT
                    !.blocked_users = @ \ {user_id},
                    !.calls = @ + 1,
                    !.call = [fn |-> "unblock_user", user_id |-> user_id,
                              at |-> security.time]]
  /\ UNCHANGED otherVars

\* the seconds that may pass between two calls
Delays == {30, 1800}

\* time.time() is later at the next call
AdvanceTime(seconds) ==
  /\ security.advances < MaxAdvances
  /\ security' = [security EXCEPT !.time = @ + seconds,
                                  !.advances = @ + 1]
  /\ UNCHANGED otherVars

DoCheckRateLimit == \E u \in Users : CheckRateLimit(u)

DoCheckUserBehavior == \E u \in Users : CheckUserBehavior(u)

DoBlockUser == \E u \in Users : BlockUser(u)

DoUnblockUser == \E u \in Users : UnblockUser(u)

DoAdvanceTime == \E d \in Delays : AdvanceTime(d)

\* a manager that has, at time 0, allowed max_requests requests of user 1,
\* AlertThreshold of them with a spam pattern
SeededSecurity ==
  [NewSecurity EXCEPT
     !.user_requests[1] = [i \in 1..max_requests |-> 0],
     !.granted[1] = [i \in 1..max_requests |-> 0],
     !.total_requests = max_requests,
     !.security_alerts = [i \in 1..AlertThreshold |->
                            [user_id |-> 1, alert_type |-> "spam_detected",
                             timestamp |-> 0]],
     !.security_incidents = AlertThreshold]

\* ------------------------------------------------------------------ claims
Range(f) == {f[i] : i \in DOMAIN f}

\* the age in seconds of an entry at time t
Age(e, t) == (t - e.timestamp) * TickSeconds

\* C1: after every cache operation the number of stored entries is at most
\* max_size; a put that overflows the store has evicted when it returns.
C1_SizeWithinCapacity == Len(cache) <= max_size

\* a put has overflowed a full store of capacity >= 1 and evicted an entry
C1_Witness ==
  /\ last.op = "put"
  /\ last.evicted # <<>>
  /\ max_size >= 1
  /\ Len(cache) = max_size

\* C2: a put of a new key that makes the store exceed its capacity evicts
\* exactly one entry, the one whose last use (its insertion, or the last get
\* that hit it) is the oldest; every other entry stays as it was.
C2_EvictsLeastRecentlyUsed ==
  [][(/\ last'.op = "put"
      /\ now' = now
      /\ last'.ret \notin KeysOf(cache)
      /\ Len(cache) + 1 > max_size)
     => LET key == last'.ret
            victim == Head(Append(useOrder, key))
        IN /\ KeysOf(cache') = (KeysOf(cache) \cup {key}) \ {victim}
           /\ Len(cache') = Len(cache)
           /\ \A i \in 1..Len(cache) :
                cache[i].prompt_hash # victim => cache[i] \in Range(cache')
           /\ max_size >= 1 => cache'[Len(cache')].prompt_hash = key]_vars

\* capacity 2: the entry written first was hit by a get and has survived the
\* put of a third key, which evicted the entry written after it
C2_Witness ==
  /\ max_size = 2
  /\ Len(cache) = 2
  /\ last.op = "put"
  /\ last.evicted # <<>>
  /\ cache[2].prompt_hash = last.ret
  /\ cache[1].hit_count = 1
  /\ last.evicted[1].hit_count = 0
  /\ last.evicted[1].timestamp > cache[1].timestamp

\* C3: a get that returns an entry returns one whose age is at most the TTL of
\* the response kind it was stored under, whichever kind the get passes.
C3_NeverPastStoredTTL ==
  [][(/\ last'.op = "get"
      /\ stats'.total_requests = stats.total_requests + 1
      /\ last'.ret # None)
     => LET key == GenerateCacheKey(last'.args.prompt, last'.args.user_id,
                                    last'.args.context)
        IN Age(cache[IndexOf(cache, key)], now) <= TTL(putKind[key])]_vars

\* C4: with capacity >= 1 and a non-zero TTL for k, the get(p, u, c, k) made
\* right after put(p, r, u, c, k) returns r.
C4_PutThenGet ==
  [][(/\ last'.op = "put"
      /\ now' = now
      /\ max_size >= 1
      /\ TTL(last'.args.response_type) # 0)
     => GetRet(cache', last'.args.prompt, last'.args.user_id,
               last'.args.context, last'.args.response_type, now')
          = last'.args.response]_vars

\* a get made right after the put of the same key and kind has returned the
\* text that was put, into a store that was full before the put
C4_Witness ==
  /\ last.op = "get"
  /\ last.after_put
  /\ last.ret = <<"O", "k">>
  /\ TTL(last.args.response_type) # 0
  /\ stats.evictions >= 1
  /\ max_size >= 1

\* the key of the request in progress
ReqKey == GenerateCacheKey(req.prompt, req.user_id, req.context)

\* a continuation marker occurs in the text
HasMarker(t) ==
  \/ Contains(Lower(t), ToBeContinued)
  \/ Contains(Lower(t), ProdolzhenieSleduet)

\* the text ends in "." (not "..."), has ten words or more and no marker
Complete(t) ==
  /\ EndsWith(t, <<".">>)
  /\ ~EndsWith(t, <<".", ".", ".">>)
  /\ WordCount(t) >= 10
  /\ ~HasMarker(t)

\* the lookup of the request in progress was made and returned an entry
LookupHit ==
  /\ pc \in {"Budgeting", "Calling", "Continuing", "Finishing", "Returned"}
  /\ req.use_cache
  /\ ~req.force_fresh
  /\ last.op = "get"
  /\ last.ret # None

\* C5: when the lookup of a get_response(use_cache, not force_fresh) finds an
\* unexpired entry, the call returns the stored text with cached = true and
\* zero usage, and plans no budget, calls no LLM, writes no cache entry and
\* updates no monitor; the stored text may be the empty string.
C5_HitShortCircuits ==
  LookupHit =>
    /\ pc = "Returned"
    /\ result.returned
    /\ ~result.raised
    /\ result.cached
    /\ result.zero_usage
    /\ result.content = last.ret
    /\ ~run.planned
    /\ run.llm_calls = 0
    /\ ~run.tracked
    /\ ~run.stored

\* C6: both is_response_truncated functions classify a text that ends in "..."
\* as truncated, and a text that ends in ".", has at least 10 words and holds
\* no continuation marker as not truncated.
C6_TruncationHeuristic ==
  (run.call = "ok" /\ run.first # None) =>
    /\ EndsWith(run.first, <<".", ".", ".">>)
         => (run.is_truncated /\ IsResponseTruncatedCore(run.first))
    /\ Complete(run.first)
         => (~run.is_truncated /\ ~IsResponseTruncatedCore(run.first))

\* C7: when get_response(use_cache) has obtained a complete completion from the
\* LLM and returns, the cache holds an entry for the request's key, which a
\* get of the same request made now would return.
C7_CompleteCompletionIsCached ==
  (/\ pc = "Returned"
   /\ req.use_cache
   /\ run.call = "ok"
   /\ run.tracked
   /\ Complete(run.first))
  => /\ ReqKey \in KeysOf(cache)
     /\ GetRet(cache, req.prompt, req.user_id, req.context, req.prompt_type,
               now) # None

\* C8: a get_response whose LLM call ended with a rate-limit or timeout error
\* has made that one LLM call only when it returns, and returns the apology
\* text of that error.
C8_RateLimitAndTimeoutAreTerminal ==
  (pc = "Returned" /\ run.call \in {"rate_limit", "timeout"})
  => /\ run.llm_calls = 1
     /\ run.cont = "none"
     /\ ~result.raised
     /\ result.content = CallOpenAI(run.call, <<>>)

\* C9: every get_response gives its caller an AIResponse with a text; no
\* exception leaves it.
C9_NoExceptionEscapes ==
  pc = "Returned" => (result.returned /\ ~result.raised /\ result.content # None)

\* C10: in a get_response that has reached the LLM and returns, a continuation
\* call was issued iff the first completion is classified truncated, there was
\* at most one, its text follows the first completion after a blank line, the
\* truncated flag is the classification of the first completion, and a failed
\* continuation has contributed the empty text without failing the request.
C10_OneContinuationIffTruncated ==
  (pc = "Returned" /\ run.call \in {"ok", "rate_limit", "timeout"})
  => /\ (run.cont # "none") <=> IsResponseTruncated(run.first)
     /\ run.llm_calls = IF run.cont # "none" THEN 2 ELSE 1
     /\ run.cont # "none"
          => /\ run.response = run.first \o <<"\n", "\n">> \o run.continuation
             /\ Len(run.response) <= MAX_MESSAGE_LENGTH
                  => result.content = run.response
     /\ run.cont = "none" => run.response = run.first
     /\ result.truncated = IsResponseTruncated(run.first)
     /\ run.cont = "error"
          => /\ run.continuation = <<>>
             /\ ~result.raised
             /\ result.content # ErrorApology

\* a truncated first completion whose continuation call failed: the request
\* has returned the first completion and the blank line, flagged truncated
C10_Witness ==
  /\ pc = "Returned"
  /\ run.call = "ok"
  /\ run.cont = "error"
  /\ run.llm_calls = 2
  /\ result.truncated
  /\ result.content = run.first \o <<"\n", "\n">>

\* a call of optimize_prompt has returned a prompt, a context and a TokenUsage
Planned == calc.fn = "optimize_prompt" /\ ~calc.raised

\* the tokens optimize_prompt may give to prompt and context together
InputBudget == calc.max_tokens - RESPONSE_TOKENS

\* C11: the pair returned by optimize_prompt satisfies count(prompt) +
\* count(context) + response reserve <= the tier's adaptive max_tokens, except
\* when max_tokens - reserve - prompt_tokens <= 0, and then count(context) is
\* at most the minimum allowance.
C11_BudgetInvariant ==
  Planned =>
    IF InputBudget - calc.prompt_tokens <= 0
    THEN CountTokens(calc.ret_context) <= MIN_TOKENS
    ELSE calc.prompt_tokens + CountTokens(calc.ret_context) + RESPONSE_TOKENS
           <= calc.max_tokens

\* C12: when prompt_tokens + context_tokens <= max_tokens - reserve,
\* optimize_prompt returns the prompt and the context unchanged and a
\* TokenUsage whose total_tokens is prompt_tokens + context_tokens.
C12_FitsUnchanged ==
  (Planned /\ calc.prompt_tokens + calc.context_tokens <= InputBudget)
  => /\ calc.prompt_unchanged
     /\ calc.context_unchanged
     /\ calc.usage.total_tokens = calc.prompt_tokens + calc.context_tokens

\* the text says that it was compressed
HasCompressedMarker(t) ==
  \/ Contains(t, SzhatyiKontekst)
  \/ Contains(Lower(t), <<"c", "o", "m", "p", "r", "e", "s", "s", "e", "d">>)

\* C13: when optimize_prompt has to compress (prompt + context exceed
\* max_tokens - reserve) and part of the context is dropped, the returned
\* context contains a marker stating that the context was compressed.
C13_CompressionIsMarked ==
  (/\ Planned
   /\ calc.prompt_tokens + calc.context_tokens > InputBudget
   /\ ~calc.context_unchanged)
  => HasCompressedMarker(calc.ret_context)

\* C14: when the prompt alone uses the whole input budget (max_tokens -
\* reserve - prompt_tokens <= 0) and the context is non-empty, the ai manager's
\* optimize_prompt does not fail: it returns a non-empty context of at most
\* MIN_TOKENS tokens, together with a TokenUsage.
C14_MinimumContext ==
  (/\ calc.fn = "optimize_prompt"
   /\ calc.manager = "ai"
   /\ InputBudget - calc.prompt_tokens <= 0
   /\ calc.context_length > 0)
  => /\ ~calc.raised
     /\ calc.ret_context # <<>>
     /\ CountTokens(calc.ret_context) <= MIN_TOKENS
     /\ calc.usage.prompt_tokens = calc.prompt_tokens

\* get_adaptive_limits in the bands of the conversation length
ShortBand(user_type) == GetAdaptiveLimits(0, user_type)
DefaultBand(user_type) == GetAdaptiveLimits(5, user_type)
LongBand(user_type) == GetAdaptiveLimits(16, user_type)

\* C15: for every tier get_adaptive_limits is non-increasing in the
\* conversation length: the limit of a longer conversation is never above
\* that of a shorter one, short band >= default band >= long band.
C15_AdaptiveLimitsMonotone ==
  (calc.fn = "get_adaptive_limits")
  => /\ \A n \in 0..calc.conversation_length :
          GetAdaptiveLimits(n, calc.user_type) >= calc.ret
     /\ ShortBand(calc.user_type) >= DefaultBand(calc.user_type)
     /\ DefaultBand(calc.user_type) >= LongBand(calc.user_type)

\* C16: for a budget above 50 tokens, the text compress_conversation returns
\* counts at most budget tokens (len // 4).
C16_OutputWithinBudget ==
  (calc.fn = "compress_conversation" /\ calc.max_tokens > 50)
  => CompressorTokens(calc.ret) <= calc.max_tokens

\* C17: compress_conversation returns the empty text for an empty list, and
\* for a non-empty list and a budget <= 0, zero included, only the 'context
\* unavailable' marker, however short the turns are.
C17_EmptyAndNoBudget ==
  (calc.fn = "compress_conversation")
  => /\ calc.messages = <<>> => calc.ret = <<>>
     /\ (calc.messages # <<>> /\ calc.max_tokens <= 0)
          => calc.ret = KontekstNedostupen

\* C18: after any number of track_request calls, truncated or not in any
\* order, the truncation_rate of every user is within [0, 1].
C18_TruncationRateInRange ==
  \A u \in DOMAIN user_patterns :
    /\ RateAtMost(Rate(0), user_patterns[u].truncation_rate)
    /\ RateAtMost(user_patterns[u].truncation_rate, Rate(20))

\* three requests of user 1 and nothing else since the monitor was set up with
\* a rate close to 1: the rate is 1, which a truncated request was capped at
C18_Witness ==
  /\ calc.fn = "track_request"
  /\ calc.user_id = 1
  /\ monitor = SeedCalls + 3
  /\ runs.calls = 0
  /\ DOMAIN user_patterns = {1}
  /\ user_patterns[1].truncation_rate = Rate(20)

\* C19: after any number of track_request calls with arbitrary satisfaction
\* arguments, the satisfaction_score of every user is within the rating scale.
C19_SatisfactionInScale ==
  \A u \in DOMAIN user_patterns :
    /\ user_patterns[u].satisfaction_score >= 0
    /\ user_patterns[u].satisfaction_score <= RatingScale * SatScale

\* minutes between two readings of the clock
Minutes(from, to) == (to - from) * ClockMinutes

\* C20: an optimization started by track_request runs no sooner than 30
\* minutes after the creation of the user's pattern and after the last
\* auto_optimize_user run for that user, and every auto_optimize_user run
\* leaves its time in the user's stored pattern.
C20_CooldownAndRecord ==
  [][(calc'.fn \in {"track_request", "auto_optimize_user"} /\ calc'.ran)
     => LET u == calc'.user_id
        IN /\ calc'.fn = "track_request"
                => /\ Minutes(created'[u], clock) >= 30
                   /\ u \in DOMAIN runs.last
                        => Minutes(runs.last[u].at, clock) >= 30
           /\ u \in DOMAIN user_patterns'
           /\ user_patterns'[u].last_optimization = clock]_vars

\* an auto_optimize_user run for a user whose stored pattern has a
\* truncation_rate above 0.2: called directly, or from track_request
OptimizedTruncating ==
  /\ calc'.fn \in {"track_request", "auto_optimize_user"}
  /\ calc'.ran
  /\ calc'.user_id \in DOMAIN user_patterns'
  /\ RateGreater(user_patterns'[calc'.user_id].truncation_rate, Rate(4))

\* preferred_prompt_length before and after the run
LengthBefore ==
  IF calc'.user_id \in DOMAIN user_patterns
  THEN user_patterns[calc'.user_id].preferred_prompt_length
  ELSE NewPattern(clock).preferred_prompt_length
LengthAfter == user_patterns'[calc'.user_id].preferred_prompt_length

\* C21: for a user whose truncation_rate is above 0.2, auto_optimize_user
\* moves the stored preferred_prompt_length exactly one step down the order
\* long > medium > short and lists a prompt_length action in
\* applied_optimizations.
C21_StepsDownOneTier ==
  [][OptimizedTruncating
     => /\ <<LengthBefore, LengthAfter>>
             \in {<<"long", "medium">>, <<"medium", "short">>}
        /\ "prompt_length" \in Range(calc'.applied)]_vars

\* C21 as amended: one step down from long or medium, and short stays short,
\* the prompt_length action being listed in each case.
C21_StepsDownToShort ==
  [][OptimizedTruncating
     => /\ <<LengthBefore, LengthAfter>>
             \in {<<"long", "medium">>, <<"medium", "short">>,
                  <<"short", "short">>}
        /\ "prompt_length" \in Range(calc'.applied)]_vars

\* auto_optimize_user was called for user 1, whose truncation_rate is above
\* 0.2: the stored preference is short and the action is listed
C21_Witness ==
  /\ calc.fn = "auto_optimize_user"
  /\ calc.user_id = 1
  /\ 1 \in DOMAIN user_patterns
  /\ RateGreater(user_patterns[1].truncation_rate, Rate(4))
  /\ user_patterns[1].preferred_prompt_length = "short"
  /\ calc.applied = <<"prompt_length">>

\* C22: for every user pattern and every context length,
\* get_optimal_token_limit returns a value with
\* MIN_TOKENS <= result <= MAX_TOKENS + 500, in all three context-length bands.
C22_OptimalLimitWithinBounds ==
  (calc.fn = "get_optimal_token_limit")
  => /\ ~calc.raised
     /\ calc.ret >= MIN_TOKENS
     /\ calc.ret <= MAX_TOKENS + 500

\* the (prompt, user id, context) of a recorded put or get
TripleOf(args) == <<args.prompt, args.user_id, args.context>>

\* C23: the cache key is a function of (prompt, user id, context) that
\* separates inputs: two puts return the same key if and only if they were
\* made with the same triple, also when a prompt or context holds '|' or
\* digits.
C23_KeySeparatesTriples ==
  [][(last.op = "put" /\ last'.op = "put")
     => ((TripleOf(last.args) = TripleOf(last'.args))
          <=> (last.ret = last'.ret))]_vars

\* C24: a get issued for a user never returns a response that was stored by
\* a put for a different user: the entry a hit returns was written for the
\* user of the get.
C24_UserIsolation ==
  [][(last'.op = "get" /\ last'.ret # None)
     => LET key == GenerateCacheKey(last'.args.prompt, last'.args.user_id,
                                    last'.args.context)
        IN cache[IndexOf(cache, key)].user_id = last'.args.user_id]_vars

\* C25: invalidate_user(u) removes every entry whose owner is u and nothing
\* else: no entry owned by u is stored afterwards, the entries of the other
\* users are stored as they were (response, timestamp, hit count) and in the
\* same order, and the statistics are unchanged.
C25_InvalidateUserFrame ==
  [][\A u \in Users :
       InvalidateUser(u)
       => /\ \A i \in 1..Len(cache') : cache'[i].user_id # u
          /\ Range(cache') = {e \in Range(cache) : e.user_id # u}
          /\ cache' = SelectSeq(cache, LAMBDA e : e \in Range(cache'))
          /\ stats' = stats]_vars

\* invalidate_user has run at time 0 in a cache that never evicted: the one
\* entry that was hit is gone, two entries that were not hit are left
C25_Witness ==
  /\ last.op = "invalidate_user"
  /\ now = 0
  /\ stats.hits = 1
  /\ stats.evictions = 0
  /\ Len(cache) = 2
  /\ \A i \in 1..Len(cache) : cache[i].hit_count = 0

\* C29: a put on a key that is already stored replaces the response, the
\* timestamp and the metadata of that entry and keeps its hit_count; the
\* number of entries does not change and nothing is evicted by that put.
\* (The metadata of a put is the one KeyPuts pairs with its response.)
C29_OverwriteKeepsHitCount ==
  [][(last'.op = "put" /\ last'.ret \in KeysOf(cache))
     => LET key == last'.ret
        IN /\ key \in KeysOf(cache')
           /\ cache'[IndexOf(cache', key)].response = last'.args.response
           /\ cache'[IndexOf(cache', key)].timestamp = now
           /\ <<last'.args.response, cache'[IndexOf(cache', key)].meta_type>>
                \in KeyPuts
           /\ cache'[IndexOf(cache', key)].hit_count
                = cache[IndexOf(cache, key)].hit_count
           /\ Len(cache') = Len(cache)
           /\ KeysOf(cache') = KeysOf(cache)
           /\ last'.evicted = <<>>
           /\ stats' = stats]_vars

\* a put at time 1 wrote an entry that has a hit: it replaced an entry that a
\* get had returned, in a full cache
C29_Witness ==
  /\ last.op = "put"
  /\ now = 1
  /\ Len(cache) = max_size
  /\ last.ret \in KeysOf(cache)
  /\ cache[IndexOf(cache, last.ret)].hit_count = 1
  /\ cache[IndexOf(cache, last.ret)].timestamp = 1
  /\ cache[IndexOf(cache, last.ret)].meta_type = "full_analysis"

\* the stored history of a user, [] for a user without one
HistoryOf(u) ==
  IF u \in DOMAIN bot.conversation_history
  THEN bot.conversation_history[u] ELSE <<>>

\* history: the texts appended for u since its history was last cleared
AppendedSinceClear(u) ==
  SubSeq(bot.appended[u], bot.cleared[u] + 1, Len(bot.appended[u]))

TurnLines(text) ==
  LET lines == Split(text, <<"\n">>)
  IN {i \in 1..Len(lines) :
        /\ Len(lines[i]) >= Len(Soobshchenie)
        /\ SubSeq(lines[i], 1, Len(Soobshchenie)) = Soobshchenie}

\* fewer turns than given, or a turn that ends in the ellipsis of a cut
LossyContext(text, messages) ==
  \/ Cardinality(TurnLines(text)) < Len(messages)
  \/ \E i \in TurnLines(text) :
       EndsWith(Split(text, <<"\n">>)[i], <<".", ".", ".">>)

\* the text starts with the header line that names n turns
MarkedContext(text, n) ==
  LET head == CompressedHeader(n) \o <<"\n">>
  IN Len(text) >= Len(head) /\ SubSeq(text, 1, Len(head)) = head

\* C30: when compress_conversation returns turns, the result starts with the
\* marker that names the number of original turns if and only if it holds
\* fewer turns than were given or a turn cut short with an ellipsis.
C30_LossyContextIsMarked ==
  (calc.fn = "compress_conversation" /\ calc.ret # KontekstNedostupen)
  => (LossyContext(calc.ret, calc.messages)
        <=> MarkedContext(calc.ret, Len(calc.messages)))

\* C31: cleanup_expired removes exactly the entries whose age exceeds the TTL
\* of the response kind they were stored under, the TTL a get with that kind
\* applies: it keeps what such a get would return and leaves nothing such a
\* get would treat as expired.
C31_CleanupAgreesWithGet ==
  [][(last'.op = "cleanup_expired")
     => \A i \in 1..Len(cache) :
          (cache[i].prompt_hash \in KeysOf(cache'))
            <=> ~IsExpired(cache[i], TTL(putKind[cache[i].prompt_hash]), now)]_vars

\* C32: every chunk split_long_response returns is at most max_length long.
C32_ChunksWithinMaxLength ==
  (calc.fn = "split_long_response")
  => \A i \in 1..Len(calc.ret) : Len(calc.ret[i]) <= calc.max_length

\* the transitions of the state machine view; Done is Finishing, and a call
\* that has returned to its caller passes "Returned" on its way to Idle
ListedSteps ==
  {<<"Idle", "CacheCheck">>, <<"CacheCheck", "Returned">>,
   <<"CacheCheck", "Budgeting">>, <<"Budgeting", "Calling">>,
   <<"Calling", "Finishing">>, <<"Calling", "Continuing">>,
   <<"Continuing", "Finishing">>, <<"Finishing", "Returned">>,
   <<"Returned", "Idle">>}

\* the cache write and the usage record of get_response
WritesOnlyWhenDone ==
  /\ (pc # "Idle" /\ last'.op = "put" /\ last' # last) => pc = "Finishing"
  /\ (monitor' # monitor \/ user_patterns' # user_patterns)
       => pc = "Finishing"

C34_EverySuggestionAccounted ==
  (calc.fn = "auto_optimize_user")
    => \A i \in 1..Len(calc.suggestions) :
         \/ \E j \in 1..Len(calc.applied) :
              calc.applied[j] = calc.suggestions[i].type
         \/ \E j \in 1..Len(calc.remaining) :
              calc.remaining[j] = calc.suggestions[i]

\* C35: writing counts as a use for eviction: the entry a put has just
\* written, by insert or by overwrite, is not the one the next put evicts
\* while another entry, untouched since, is stored
C35_WrittenEntryNotNextEvicted ==
  [][(/\ last.op = "put"
      /\ last.ret \in KeysOf(cache)
      /\ Len(cache) >= 2
      /\ last'.op = "put"
      /\ last'.ret # last.ret
      /\ last'.evicted # <<>>)
     => last'.evicted[1].prompt_hash # last.ret]_vars

\* the requests of a user check_rate_limit has allowed in the window that
\* ends now
GrantedInWindow(user_id) ==
  Cardinality({i \in 1..Len(security.granted[user_id]) :
                 security.granted[user_id][i]
                   >= security.time - time_window})

\* C36: in every window of time_window seconds check_rate_limit allows a user
\* at most max_requests requests; it allows a request exactly when the user's
\* own allowed requests of the window are fewer; a denied request is not
\* recorded, leaves the queue alone and raises blocked_requests by one; a call
\* for one user leaves the queues of the others alone
C36_SlidingWindowRateLimit ==
  /\ [](\A u \in Users :
          \A i \in 1..Len(security.granted[u]) :
            i + max_requests <= Len(security.granted[u])
              => security.granted[u][i + max_requests]
                   - security.granted[u][i] > time_window)
  /\ [][(/\ security'.calls # security.calls
         /\ security'.call.fn = "check_rate_limit")
        => LET u == security'.call.user_id
           IN /\ security'.call.ret <=> GrantedInWindow(u) < max_requests
              /\ ~security'.call.ret
                   => /\ security'.user_requests = security.user_requests
                      /\ security'.granted = security.granted
                      /\ security'.total_requests = security.total_requests
                      /\ security'.blocked_requests
                           = security.blocked_requests + 1
              /\ \A v \in Users \ {u} :
                   security'.user_requests[v] = security.user_requests[v]]_vars

\* user 1, denied at the limit, is allowed again once the window has moved
\* past the requests that filled it
C36_Witness ==
  /\ security.call.fn = "check_rate_limit"
  /\ security.call.user_id = 1
  /\ security.call.ret
  /\ security.blocked_requests >= 1
  /\ Len(security.granted[1]) = max_requests + 1
  /\ Len(security.user_requests[1]) = 1

\* C37: a user who is not blocked is denied by check_user_behavior only while
\* an alert that another check raised is less than AlertWindow seconds old:
\* the calls of check_user_behavior do not prolong the restriction
C37_RestrictionEndsWithItsAlerts ==
  (/\ security.call.fn = "check_user_behavior"
   /\ security.call.reason = "suspicious")
    => \E i \in 1..Len(security.security_alerts) :
         LET alert == security.security_alerts[i]
         IN /\ alert.user_id = security.call.user_id
            /\ alert.alert_type # "suspicious_behavior"
            /\ alert.timestamp > security.call.at - AlertWindow

\* the event the step has logged, or the last one when it has logged none
Logged == bot'.events[Len(bot'.events)]

NextCache ==
  \/ DoGet
  \/ DoPut
  \/ DoInvalidateUser
  \/ DoInvalidatePattern
  \/ CleanupExpired
  \/ Clear
  \/ Tick

SpecCache == InitCache /\ [][NextCache]_vars

\* the cache under prompts and contexts that hold the separator of the key
NextKeys ==
  \/ DoPutKey
  \/ DoGetKey
  \/ DoInvalidateUser
  \/ Tick

InitKeys ==
  /\ InitState
  /\ config = "complete"
  /\ max_size \in KeySizes

SpecKeys == InitKeys /\ [][NextKeys]_vars

\* the monitor alone: tracking, optimization runs, resets and the clock.
\* It starts after SeedCalls requests of user 1, each with a truncated answer
\* of 500 characters and no rating, all tracked at the time the pattern of
\* user 1 was created: no optimization has run yet.
InitMonitor ==
  /\ pc = "Idle"
  /\ req = NoReq
  /\ run = NoRun
  /\ result = NoResult
  /\ cache = <<>>
  /\ stats = ZeroStats
  /\ now = 0
  /\ last = LastOp("init", NoArgs, None, <<>>, FALSE)
  /\ putKind = <<>>
  /\ useOrder = <<>>
  /\ config = "complete"
  /\ max_size = 1
  /\ monitor = SeedCalls
  /\ truncated_responses = SeedCalls
  /\ user_patterns = SeedPatterns(SeedCalls, <<>>)
  /\ clock = 0
  /\ runs = [calls |-> 0, last |-> <<>>]
  /\ created = IF SeedCalls > 0 THEN With(<<>>, 1, 0) ELSE <<>>
  /\ calc = [fn |-> "none"]
  /\ usage_stats = [total_tokens |-> 0, total_requests |-> 0]
  /\ security = NewSecurity
  /\ bot = NewBot

NextMonitor ==
  \/ DoTrackRequest
  \/ DoAutoOptimizeUser
  \/ DoResetUserStats
  \/ DoOptimalTokenLimit
  \/ TickClock

SpecMonitor == InitMonitor /\ [][NextMonitor]_vars

\* the token budget functions, called on a client at rest
NextTokens ==
  \/ DoPlanAI
  \/ DoPlanCore
  \/ DoAdaptiveLimits
  \/ DoCompress
  \/ DoSplitResponse

\* either manager built with Config or with BotConfig
InitTokens ==
  /\ InitState
  /\ config \in {"Config", "BotConfig"}
  /\ max_size = 1

SpecTokens == InitTokens /\ [][NextTokens]_vars

\* the conversation handler under the updates of two users.  User 1 has
\* asked HistorySeed direct questions before; all were answered.
NextBot ==
  \/ DoArrive
  \/ HandleMessage
  \/ DoResume
  \/ DoLLMReturns

InitBot ==
  /\ pc = "Idle"
  /\ req = NoReq
  /\ run = NoRun
  /\ result = NoResult
  /\ monitor = 0
  /\ truncated_responses = 0
  /\ user_patterns = <<>>
  /\ clock = 0
  /\ runs = [calls |-> 0, last |-> <<>>]
  /\ created = <<>>
  /\ calc = [fn |-> "none"]
  /\ usage_stats = [total_tokens |-> 0, total_requests |-> 0]
  /\ cache = <<>>
  /\ stats = ZeroStats
  /\ now = 0
  /\ last = LastOp("init", NoArgs, None, <<>>, FALSE)
  /\ putKind = <<>>
  /\ useOrder = <<>>
  /\ config \in Configs
  /\ max_size = 1
  /\ security = NewSecurity
  /\ bot = SeededBot(HistorySeed)

SpecBot == InitBot /\ [][NextBot]_vars

\* the structured consultation of handle_message alone
NextConsultation == DoConsultationMessage

InitConsultation ==
  /\ pc = "Idle"
  /\ req = NoReq
  /\ run = NoRun
  /\ result = NoResult
  /\ monitor = 0
  /\ truncated_responses = 0
  /\ user_patterns = <<>>
  /\ clock = 0
  /\ runs = [calls |-> 0, last |-> <<>>]
  /\ created = <<>>
  /\ calc = [fn |-> "none"]
  /\ usage_stats = [total_tokens |-> 0, total_requests |-> 0]
  /\ cache = <<>>
  /\ stats = ZeroStats
  /\ now = 0
  /\ last = LastOp("init", NoArgs, None, <<>>, FALSE)
  /\ putKind = <<>>
  /\ useOrder = <<>>
  /\ config = "complete"
  /\ max_size = 1
  /\ bot = NewBot
  /\ security = NewSecurity

SpecConsultation == InitConsultation /\ [][NextConsultation]_vars

\* the SecurityManager alone: checks, blocks and the clock
NextSecurity ==
  \/ DoCheckRateLimit
  \/ DoCheckUserBehavior
  \/ DoBlockUser
  \/ DoUnblockUser
  \/ DoAdvanceTime

InitSecurity ==
  /\ pc = "Idle"
  /\ req = NoReq
  /\ run = NoRun
  /\ result = NoResult
  /\ monitor = 0
  /\ truncated_responses = 0
  /\ user_patterns = <<>>
  /\ clock = 0
  /\ runs = [calls |-> 0, last |-> <<>>]
  /\ created = <<>>
  /\ calc = [fn |-> "none"]
  /\ usage_stats = [total_tokens |-> 0, total_requests |-> 0]
  /\ cache = <<>>
  /\ stats = ZeroStats
  /\ now = 0
  /\ last = LastOp("init", NoArgs, None, <<>>, FALSE)
  /\ putKind = <<>>
  /\ useOrder = <<>>
  /\ config = "complete"
  /\ max_size = 1
  /\ bot = NewBot
  /\ security = SeededSecurity

SpecSecurity == InitSecurity /\ [][NextSecurity]_vars

\* the client: requests, and the cache operations between two requests
Next ==
  \/ DoStart
  \/ CacheCheck
  \/ Budgeting
  \/ DoCalling
  \/ DoContinuing
  \/ Finishing
  \/ Returned
  \/ DoPutRequest
  \/ CleanupExpired
  \/ Clear
  \/ Tick

Spec == Init /\ [][Next]_vars

\* the requests alone, and the puts that fill the cache between them
NextCall ==
  \/ DoStart
  \/ CacheCheck
  \/ Budgeting
  \/ DoCalling
  \/ DoContinuing
  \/ Finishing
  \/ Returned
  \/ DoPutRequest

\* the client when every step of a call that has started is taken in the end:
\* each model call returns or fails within its timeout
SpecLive ==
  /\ Init
  /\ [][NextCall]_vars
  /\ WF_vars(CacheCheck)
  /\ WF_vars(Budgeting)
  /\ WF_vars(DoCalling)
  /\ WF_vars(DoContinuing)
  /\ WF_vars(Finishing)
  /\ WF_vars(Returned)

====
